---------------------------- MODULE Spec2Model ----------------------------
(***************************************************************************)
(* A model of the orchestration core of DD-OS:                             *)
(*   - SubagentManager  (src/ddos-local-server.py)                         *)
(*   - MCPClient        (src/skills/mcp_client.py)                         *)
(*   - MCPClientManager (src/skills/mcp_manager.py) and ToolRegistry with  *)
(*     the HTTP handlers that reload it (src/ddos-local-server.py)         *)
(* Each part has its own specifications (SpecAgent and SpecCollect,        *)
(* SpecClient, SpecRegistry and SpecManager); the variables of the other   *)
(* parts stay at their initial values.                                     *)
(***************************************************************************)
EXTENDS Integers, Sequences, FiniteSets, TLC

VARIABLES
    \* ---- SubagentManager ----
    agents,       \* self.agents: agent id -> record
    futures,      \* self.futures: the ids that have a Future stored
    work,         \* state of the unit of work submitted to the executor
    poolQueue,    \* the executor's FIFO work queue
    spawnPc,      \* position of the thread running spawn() for each id
    colPc,        \* position of the thread running collect_results()
    colIds,       \* its argument agent_ids
    colIdx,       \* index of the id the for loop is at
    colResults,   \* its local list results
    expired,      \* TRUE once time.time() has passed its deadline
    \* ---- MCPClient (one client) ----
    process,        \* self._process: 0 (None) or the number of a child process
    procs,          \* child process number -> "none" | "alive" | "dead"
    stdinBuf,       \* per child process: the request lines written to its stdin
    stdoutBuf,      \* per child process: the lines it wrote, not yet read
    running,        \* self._running
    connectedFlag,  \* self._connected
    request_id,     \* self._request_id
    response_queue, \* self._response_queue: request id -> queue of messages
    readers,        \* the reader threads started so far (_read_responses)
    thr,            \* the threads that call connect/call_tool/disconnect
    sent,           \* number of lines the server side has written
    \* ---- ToolRegistry ----
    builtin_tools,     \* self.builtin_tools: the names, in registration order
    plugin_tools,      \* self.plugin_tools
    instruction_tools, \* self.instruction_tools
    mcp_tools,         \* self.mcp_tools
    mcp_manager,       \* self.mcp_manager is not None
    fs,                \* the skill directories on disk, in scan order
    lastOp,            \* the last operation on the registry or the Manager
    \* ---- MCPClientManager ----
    mgr_clients,       \* the server names in self._clients
    mgr_live,          \* those whose client is connected
    mgr_tools,         \* self._tools
    tool_to_server,    \* self._tool_to_server
    listed,            \* per server: what its list_tools() returned last
    mgr_initialized,   \* self._initialized
    shut_down,         \* the clients the last shutdown_all() called disconnect() on
    config_file,       \* mcp-servers.json: per server its enabled flag and command
    started_configs,   \* the MCPServerConfig of every client that spawned a process
    \* ---- tool dispatch ----
    response,          \* what the last dispatch of a tool call ended with
    \* ---- one manifest.json under scan_plugins ----
    manifest_tools,    \* spec['tools']: the tools the manifest declares
    seen_before,       \* seen_tools when the scan reaches the manifest
    scanned,           \* the maps and seen_tools after the manifest
    \* ---- a request thread in handle_tools_reload, and one that reads ----
    reload_pc,         \* position of the thread running handle_tools_reload
    looked,            \* the last is_registered(name) of another thread
    \* ---- the threads that call into the MCPClientManager ----
    mgr_lock,          \* self._lock of the Manager: 0 or the thread that holds it
    mthr               \* per thread: its call and its position in it

agentVars == <<agents, futures, work, poolQueue, spawnPc,
               colPc, colIds, colIdx, colResults, expired>>

clientVars == <<process, procs, stdinBuf, stdoutBuf, running, connectedFlag,
                request_id, response_queue, readers, thr, sent>>

mgrVars ==
    <<mgr_clients, mgr_live, mgr_tools, tool_to_server, listed, mgr_initialized, shut_down,
      config_file, started_configs>>

regVars == <<builtin_tools, plugin_tools, instruction_tools, mcp_tools, mcp_manager,
             fs, lastOp, mgrVars>>

dispatchVars == <<response>>

scanVars == <<manifest_tools, seen_before, scanned>>

reloadVars == <<reload_pc, looked>>

lockVars == <<mgr_lock, mthr>>

nonAgentVars == <<clientVars, regVars, dispatchVars, scanVars, reloadVars, lockVars>>

nonClientVars == <<agentVars, regVars, dispatchVars, scanVars, reloadVars, lockVars>>

nonRegVars == <<agentVars, clientVars, dispatchVars, scanVars, reloadVars, lockVars>>

nonDispatchVars == <<agentVars, clientVars, regVars, scanVars, reloadVars, lockVars>>

vars == <<agentVars, clientVars, regVars, dispatchVars, scanVars, reloadVars, lockVars>>

\* ---------------------------------------------------------------------
\* Bounds of the model
\* ---------------------------------------------------------------------
MaxAgents == 6        \* spawn() calls in one behaviour
MaxSpawners == 2      \* spawn() calls in progress at the same time
MaxFinished == 2      \* workers that finish _run_agent in one behaviour
ColAgents == 3        \* spawn() calls in a behaviour that collects results
MaxCollect == 2       \* length of the id list given to collect_results
MaxRequests == 3      \* request ids one MCPClient hands out
MaxProcs == 2         \* child processes one MCPClient spawns
MaxMsgs == 2          \* lines the server side writes
MaxSkillDirs == 2     \* skill directories on disk
MaxListed == 1        \* tools one server lists towards the Manager on its own

\* ---------------------------------------------------------------------
\* SubagentManager
\* ---------------------------------------------------------------------
MAX_CONCURRENT == 5

AgentIds == 1..MaxAgents

\* agent_info as built by spawn(): status 'pending', no result, no error
NewAgentInfo ==
    [status |-> "pending", result |-> FALSE, error |-> "None", completed_at |-> FALSE]

running_count == Cardinality({a \in DOMAIN agents : agents[a].status = "running"})

ActiveWorkers == {a \in AgentIds : work[a] = "active"}

FinishedWorkers == {a \in AgentIds : work[a] = "done"}

InFlightSpawns == {a \in AgentIds : spawnPc[a] \in {"inserted", "stored"}}

Put(f, k, v) == [x \in DOMAIN f \cup {k} |-> IF x = k THEN v ELSE f[x]]

AgentInit ==
    /\ agents = <<>>
    /\ futures = {}
    /\ work = [a \in AgentIds |-> "none"]
    /\ poolQueue = <<>>
    /\ spawnPc = [a \in AgentIds |-> "idle"]
    /\ colPc = "idle"
    /\ colIds = <<>>
    /\ colIdx = 0
    /\ colResults = <<>>
    /\ expired = FALSE

\* A faulty spawn() that leaves the record of a refused task 'pending'
QueuedInfoPending == [NewAgentInfo EXCEPT !.error = "Queue full"]

\* The record of a task refused at capacity: agent_info['status'] = 'queued',
\* agent_info['error'] = 'Queue full, max 5 concurrent agents'
QueuedInfo == [NewAgentInfo EXCEPT !.status = "queued", !.error = "Queue full"]

\* spawn(), first 'with self.lock' block: count the running records; at
\* capacity insert the record as 'queued' and return, otherwise insert it
\* as 'pending'.
SpawnCheck(a) ==
    /\ spawnPc[a] = "idle"
    /\ \A b \in 1..(a - 1) : spawnPc[b] # "idle"
    /\ Cardinality(InFlightSpawns) < MaxSpawners
    /\ IF running_count >= MAX_CONCURRENT
       THEN /\ agents' = Put(agents, a, QueuedInfo)
            /\ spawnPc' = [spawnPc EXCEPT ![a] = "returned_queued"]
       ELSE /\ agents' = Put(agents, a, NewAgentInfo)
            /\ spawnPc' = [spawnPc EXCEPT ![a] = "inserted"]
    /\ UNCHANGED <<futures, work, poolQueue, colPc, colIds, colIdx, colResults, expired>>
    /\ UNCHANGED nonAgentVars

\* spawn(), outside the lock: future = self.executor.submit(self._run_agent,
\* ...); self.futures[agent_id] = future.  (One step: nothing reads
\* self.futures for an id that spawn() has not returned yet.)
SpawnSubmit(a) ==
    /\ spawnPc[a] = "inserted"
    /\ work' = [work EXCEPT ![a] = "queued"]
    /\ poolQueue' = Append(poolQueue, a)
    /\ futures' = futures \cup {a}
    /\ spawnPc' = [spawnPc EXCEPT ![a] = "stored"]
    /\ UNCHANGED <<agents, colPc, colIds, colIdx, colResults, expired>>
    /\ UNCHANGED nonAgentVars

\* spawn(), second 'with self.lock' block: self.agents[agent_id]['status'] =
\* 'running' (a KeyError when the record is gone), then return the id.
SpawnMark(a) ==
    /\ spawnPc[a] = "stored"
    /\ IF a \in DOMAIN agents
       THEN /\ agents' = [agents EXCEPT ![a].status = "running"]
            /\ spawnPc' = [spawnPc EXCEPT ![a] = "returned"]
       ELSE /\ agents' = agents
            /\ spawnPc' = [spawnPc EXCEPT ![a] = "raised"]
    /\ UNCHANGED <<futures, work, poolQueue, colPc, colIds, colIdx, colResults, expired>>
    /\ UNCHANGED nonAgentVars

\* ThreadPoolExecutor(max_workers=MAX_CONCURRENT): a free pool thread takes
\* the oldest work item and starts _run_agent.
WorkerStart(a) ==
    /\ poolQueue # <<>>
    /\ a = Head(poolQueue)
    /\ Cardinality(ActiveWorkers) < MAX_CONCURRENT
    /\ poolQueue' = Tail(poolQueue)
    /\ work' = [work EXCEPT ![a] = "active"]
    /\ UNCHANGED <<agents, futures, spawnPc, colPc, colIds, colIdx, colResults, expired>>
    /\ UNCHANGED nonAgentVars

\* _run_agent: the tool loop ran through (ok) or raised (~ok); under the
\* lock, if the record is still there, write 'completed' + result or
\* 'failed' + error, and completed_at; then return, which completes the
\* Future and frees the pool thread.
WorkerFinish(a, ok) ==
    /\ work[a] = "active"
    /\ Cardinality(FinishedWorkers) < MaxFinished
    /\ work' = [work EXCEPT ![a] = "done"]
    /\ agents' = IF a \in DOMAIN agents
                 THEN IF ok
                      THEN [agents EXCEPT ![a].status = "completed",
                                          ![a].result = TRUE,
                                          ![a].completed_at = TRUE]
                      ELSE [agents EXCEPT ![a].status = "failed",
                                          ![a].error = "exception",
                                          ![a].completed_at = TRUE]
                 ELSE agents
    /\ UNCHANGED <<futures, poolQueue, spawnPc, colPc, colIds, colIdx, colResults, expired>>
    /\ UNCHANGED nonAgentVars

\* cleanup_old_agents(max_age): under the lock, the list comprehension
\* compares completed_at with the cutoff first (None < float raises
\* TypeError for a record that has no completed_at yet, and nothing is
\* removed), then removes the completed/failed records older than the
\* cutoff, with their futures.  old: the records completed before the cutoff.
to_remove(old) ==
    {a \in DOMAIN agents : a \in old /\ agents[a].status \in {"completed", "failed"}}

Restrict(f, S) == [x \in S |-> f[x]]

Cleanup(old) ==
    /\ DOMAIN agents # {}
    /\ old \subseteq {a \in DOMAIN agents : agents[a].completed_at}
    /\ IF \E a \in DOMAIN agents : ~agents[a].completed_at
       THEN UNCHANGED <<agents, futures>>
       ELSE /\ agents' = Restrict(agents, DOMAIN agents \ to_remove(old))
            /\ futures' = futures \ to_remove(old)
    /\ UNCHANGED <<work, poolQueue, spawnPc, colPc, colIds, colIdx, colResults, expired>>
    /\ UNCHANGED nonAgentVars

\* The ids a caller can pass to collect_results: ids spawn() has returned.
ReturnedIds == {a \in AgentIds : spawnPc[a] \in {"returned", "returned_queued"}}

SeqsUpTo(S, n) == UNION {[1..k -> S] : k \in 1..n}

\* collect_results(agent_ids, timeout): results = [], deadline = now + timeout
CollectBegin(ids) ==
    /\ colPc = "idle"
    /\ colPc' = "loop"
    /\ colIds' = ids
    /\ colIdx' = 1
    /\ colResults' = <<>>
    /\ expired' = FALSE
    /\ UNCHANGED <<agents, futures, work, poolQueue, spawnPc>>
    /\ UNCHANGED nonAgentVars

\* The head of the for loop: remaining = deadline - time.time(); break when
\* remaining <= 0; future = self.futures.get(agent_id).
CollectLoop ==
    /\ colPc = "loop"
    /\ colPc' = IF colIdx > Len(colIds) THEN "done"
               ELSE IF expired THEN "done"
               ELSE IF colIds[colIdx] \in futures THEN "wait"
               ELSE "snap"
    /\ UNCHANGED <<agents, futures, work, poolQueue, spawnPc, colIds, colIdx, colResults, expired>>
    /\ UNCHANGED nonAgentVars

\* future.result(timeout=remaining) returns: the future is done.
CollectWaitDone ==
    /\ colPc = "wait"
    /\ work[colIds[colIdx]] = "done"
    /\ colPc' = "snap"
    /\ UNCHANGED <<agents, futures, work, poolQueue, spawnPc, colIds, colIdx, colResults, expired>>
    /\ UNCHANGED nonAgentVars

\* future.result(timeout=remaining) raises TimeoutError, which is swallowed:
\* the deadline has passed and the future is not done.
CollectWaitTimeout ==
    /\ colPc = "wait"
    /\ work[colIds[colIdx]] # "done"
    /\ expired' = TRUE
    /\ colPc' = "snap"
    /\ UNCHANGED <<agents, futures, work, poolQueue, spawnPc, colIds, colIdx, colResults>>
    /\ UNCHANGED nonAgentVars

\* Under the lock: agent = self.agents.get(agent_id); append its snapshot
\* when there is one; next id.
CollectSnap ==
    /\ colPc = "snap"
    /\ colResults' = IF colIds[colIdx] \in DOMAIN agents
                     THEN Append(colResults, [id |-> colIds[colIdx],
                                              status |-> agents[colIds[colIdx]].status])
                     ELSE colResults
    /\ colIdx' = colIdx + 1
    /\ colPc' = "loop"
    /\ UNCHANGED <<agents, futures, work, poolQueue, spawnPc, colIds, expired>>
    /\ UNCHANGED nonAgentVars

\* Time passes the deadline while collect_results is running.
Tick ==
    /\ colPc \in {"loop", "wait", "snap"}
    /\ ~expired
    /\ expired' = TRUE
    /\ UNCHANGED <<agents, futures, work, poolQueue, spawnPc, colPc, colIds, colIdx, colResults>>
    /\ UNCHANGED nonAgentVars

AgentNext ==
    \/ \E a \in AgentIds : SpawnCheck(a)
    \/ \E a \in AgentIds : SpawnSubmit(a)
    \/ \E a \in AgentIds : SpawnMark(a)
    \/ \E a \in AgentIds : WorkerStart(a)
    \/ \E a \in AgentIds, ok \in BOOLEAN : WorkerFinish(a, ok)
    \/ \E old \in SUBSET AgentIds : Cleanup(old)

\* spawn() called while at most one other spawn() is in progress
SpawnOfTwo(a) ==
    /\ Cardinality(InFlightSpawns) <= 1
    /\ SpawnCheck(a)

\* Two threads that call spawn(), the pool's workers, and cleanup
QueueNext ==
    \/ \E a \in AgentIds : SpawnOfTwo(a)
    \/ \E a \in AgentIds : SpawnSubmit(a)
    \/ \E a \in AgentIds : SpawnMark(a)
    \/ \E a \in AgentIds : WorkerStart(a)
    \/ \E a \in AgentIds, ok \in BOOLEAN : WorkerFinish(a, ok)
    \/ \E old \in SUBSET AgentIds : Cleanup(old)

\* spawn() of one of the first MaxFinished agents: every worker that is
\* started can finish within the bound on finished workers
SpawnLive(a) ==
    /\ a <= MaxFinished
    /\ SpawnCheck(a)

\* A few spawn() calls, the pool's workers and cleanup, for the claims about
\* what happens in the end
LiveNext ==
    \/ \E a \in AgentIds : SpawnLive(a)
    \/ \E a \in AgentIds : SpawnSubmit(a)
    \/ \E a \in AgentIds : SpawnMark(a)
    \/ \E a \in AgentIds : WorkerStart(a)
    \/ \E a \in AgentIds, ok \in BOOLEAN : WorkerFinish(a, ok)
    \/ \E old \in SUBSET AgentIds : Cleanup(old)

\* The thread that called spawn() goes on to the submit and to its second
\* lock block; a pool thread takes a waiting work item; _run_agent comes
\* to its end (every tool call returns).
LiveFairness ==
    \A a \in AgentIds :
        /\ WF_vars(SpawnSubmit(a))
        /\ WF_vars(SpawnMark(a))
        /\ WF_vars(WorkerStart(a))
        /\ WF_vars(\E ok \in BOOLEAN : WorkerFinish(a, ok))

\* A caller that spawns a few agents and collects their results.
CollectNext ==
    \/ \E a \in 1..ColAgents : SpawnCheck(a)
    \/ \E a \in 1..ColAgents : SpawnSubmit(a)
    \/ \E a \in 1..ColAgents : SpawnMark(a)
    \/ \E a \in 1..ColAgents : WorkerStart(a)
    \/ \E a \in 1..ColAgents, ok \in BOOLEAN : WorkerFinish(a, ok)
    \/ \E ids \in SeqsUpTo(ReturnedIds, MaxCollect) : CollectBegin(ids)
    \/ CollectLoop
    \/ CollectWaitDone
    \/ CollectWaitTimeout
    \/ CollectSnap
    \/ Tick

\* ---------------------------------------------------------------------
\* MCPClient
\* ---------------------------------------------------------------------
\* Two threads call into the client (request threads of the HTTP server).
Threads == {1, 2}

ProcIds == 1..MaxProcs

\* The lines a server can write: a response with a result or with an error,
\* a server-to-client request (method and id), a notification (method, no
\* id) and a line that is not JSON.
ServerMsgs ==
    [kind : {"result", "error", "request"}, id : 1..MaxRequests]
        \cup {[kind |-> "notification", id |-> 0], [kind |-> "garbage", id |-> 0]}

NoMsg == [kind |-> "none", id |-> 0]

\* What _send_request ends with when no message was taken from its queue
TimedOut == [kind |-> "timeout", id |-> 0]

WriteFailed == [kind |-> "oserror", id |-> 0]

\* The line written by _send_notification("notifications/initialized")
Initialized == 0

\* "id" in message
HasId(m) == m.kind \in {"result", "error", "request"}

IdleThread ==
    [op |-> "none", pc |-> "idle", inConnect |-> FALSE, rid |-> 0, resp |-> NoMsg, out |-> "none"]

\* MCPClient.connected
Connected == connectedFlag /\ process # 0 /\ procs[process] = "alive"

\* self._process is None or self._process.poll() is not None
ProcessGone == process = 0 \/ procs[process] # "alive"

ClientInit ==
    /\ process = 0
    /\ procs = [g \in ProcIds |-> "none"]
    /\ stdinBuf = [g \in ProcIds |-> <<>>]
    /\ stdoutBuf = [g \in ProcIds |-> <<>>]
    /\ running = FALSE
    /\ connectedFlag = FALSE
    /\ request_id = 0
    /\ response_queue = <<>>
    /\ readers = <<>>
    /\ thr = [t \in Threads |-> IdleThread]
    /\ sent = 0

\* A thread ends its public call with outcome o (rid and resp keep what its
\* last _send_request had, until the thread's next call).
Done(th, t, o) == [th EXCEPT ![t].pc = "idle", ![t].out = o, ![t].inConnect = FALSE]

\* A thread enters a public method.
Enter(t, op, pc, inConnect) ==
    [thr EXCEPT ![t] = [op |-> op, pc |-> pc, inConnect |-> inConnect,
                        rid |-> 0, resp |-> NoMsg, out |-> "none"]]

\* connect(): 'if self.connected: return True'
BeginConnect(t) ==
    /\ thr[t].pc = "idle"
    /\ thr' = IF Connected
              THEN Done(Enter(t, "connect", "idle", FALSE), t, "True")
              ELSE Enter(t, "connect", "c_spawn", TRUE)
    /\ UNCHANGED <<process, procs, stdinBuf, stdoutBuf, running, connectedFlag,
                   request_id, response_queue, readers, sent>>
    /\ UNCHANGED nonClientVars

\* call_tool(): 'if not self.connected: if not self.connect(): raise'
BeginCall(t) ==
    /\ thr[t].pc = "idle"
    /\ thr' = IF Connected
              THEN Enter(t, "call", "s_check", FALSE)
              ELSE Enter(t, "call", "c_spawn", TRUE)
    /\ UNCHANGED <<process, procs, stdinBuf, stdoutBuf, running, connectedFlag,
                   request_id, response_queue, readers, sent>>
    /\ UNCHANGED nonClientVars

\* disconnect() called from outside
BeginDisconnect(t) ==
    /\ thr[t].pc = "idle"
    /\ thr' = Enter(t, "disconnect", "d_flags", FALSE)
    /\ UNCHANGED <<process, procs, stdinBuf, stdoutBuf, running, connectedFlag,
                   request_id, response_queue, readers, sent>>
    /\ UNCHANGED nonClientVars

\* connect(): self._process = subprocess.Popen(...).  ok: the spawn worked;
\* otherwise Popen raises and the except branch calls disconnect().
ConnectSpawn(t, ok, P) ==
    /\ thr[t].pc = "c_spawn"
    /\ IF ok
       THEN /\ \E g \in P :
                 /\ procs[g] = "none"
                 /\ \A h \in 1..(g - 1) : procs[h] # "none"
                 /\ procs' = [procs EXCEPT ![g] = "alive"]
                 /\ process' = g
            /\ thr' = [thr EXCEPT ![t].pc = "c_start"]
       ELSE /\ thr' = [thr EXCEPT ![t].pc = "d_flags"]
            /\ UNCHANGED <<process, procs>>
    /\ UNCHANGED <<stdinBuf, stdoutBuf, running, connectedFlag,
                   request_id, response_queue, readers, sent>>
    /\ UNCHANGED nonClientVars

NewReader == [pc |-> "r_loop", proc |-> 0, msg |-> NoMsg, why |-> "none"]

\* connect(): self._running = True; start the reader thread.
ConnectStart(t) ==
    /\ thr[t].pc = "c_start"
    /\ running' = TRUE
    /\ readers' = Append(readers, NewReader)
    /\ thr' = [thr EXCEPT ![t].pc = "s_check"]
    /\ UNCHANGED <<process, procs, stdinBuf, stdoutBuf, connectedFlag,
                   request_id, response_queue, sent>>
    /\ UNCHANGED nonClientVars

\* _send_request: raise MCPError(-1) when the process is not running (inside
\* connect() the except branch then calls disconnect()); otherwise
\* request_id = self._next_id() and self._response_queue[request_id] = Queue().
SendCheck(t) ==
    /\ thr[t].pc = "s_check"
    /\ IF ProcessGone
       THEN /\ thr' = IF thr[t].inConnect
                      THEN [thr EXCEPT ![t].pc = "d_flags"]
                      ELSE Done(thr, t, "MCPError")
            /\ UNCHANGED <<request_id, response_queue>>
       ELSE /\ request_id < MaxRequests
            /\ request_id' = request_id + 1
            /\ response_queue' = Put(response_queue, request_id + 1, <<>>)
            /\ thr' = [thr EXCEPT ![t].pc = "s_write", ![t].rid = request_id + 1]
    /\ UNCHANGED <<process, procs, stdinBuf, stdoutBuf, running, connectedFlag, readers, sent>>
    /\ UNCHANGED nonClientVars

\* _send_request: self._process.stdin.write(...); flush().  With no process
\* (AttributeError) or a dead one (BrokenPipeError) the exception leaves
\* through the finally clause.
SendWrite(t) ==
    /\ thr[t].pc = "s_write"
    /\ IF ProcessGone
       THEN /\ thr' = [thr EXCEPT ![t].pc = "s_del", ![t].resp = WriteFailed]
            /\ UNCHANGED stdinBuf
       ELSE /\ stdinBuf' = [stdinBuf EXCEPT ![process] = Append(@, thr[t].rid)]
            /\ thr' = [thr EXCEPT ![t].pc = "s_wait"]
    /\ UNCHANGED <<process, procs, stdoutBuf, running, connectedFlag,
                   request_id, response_queue, readers, sent>>
    /\ UNCHANGED nonClientVars

\* A faulty _send_request that takes a message and goes on waiting
SendGetAgain(t) ==
    /\ thr[t].pc = "s_wait"
    /\ response_queue[thr[t].rid] # <<>>
    /\ thr' = [thr EXCEPT ![t].resp = Head(response_queue[thr[t].rid])]
    /\ response_queue' = [response_queue EXCEPT ![thr[t].rid] = Tail(@)]
    /\ UNCHANGED <<process, procs, stdinBuf, stdoutBuf, running, connectedFlag,
                   request_id, readers, sent>>
    /\ UNCHANGED nonClientVars

\* _send_request: response = response_queue.get(timeout=timeout) returns a
\* message.
SendGet(t) ==
    /\ thr[t].pc = "s_wait"
    /\ response_queue[thr[t].rid] # <<>>
    /\ thr' = [thr EXCEPT ![t].pc = "s_del", ![t].resp = Head(response_queue[thr[t].rid])]
    /\ response_queue' = [response_queue EXCEPT ![thr[t].rid] = Tail(@)]
    /\ UNCHANGED <<process, procs, stdinBuf, stdoutBuf, running, connectedFlag,
                   request_id, readers, sent>>
    /\ UNCHANGED nonClientVars

\* _send_request: the get() raises queue.Empty after the timeout, turned
\* into TimeoutError.
SendTimeout(t) ==
    /\ thr[t].pc = "s_wait"
    /\ response_queue[thr[t].rid] = <<>>
    /\ thr' = [thr EXCEPT ![t].pc = "s_del", ![t].resp = TimedOut]
    /\ UNCHANGED <<process, procs, stdinBuf, stdoutBuf, running, connectedFlag,
                   request_id, response_queue, readers, sent>>
    /\ UNCHANGED nonClientVars

\* A faulty finally clause: without the del
KeepPending(q, rid) == q

\* finally: del self._response_queue[request_id]
RemovePending(q, rid) == Restrict(q, DOMAIN q \ {rid})

\* What _send_request ends with, from what it took from its queue:
\* "error" in response -> MCPError; otherwise response.get("result"), which
\* is None for a message that has no result.
SendOutcome(m) ==
    CASE m.kind = "timeout" -> "TimeoutError"
      [] m.kind = "oserror" -> "OSError"
      [] m.kind = "error"   -> "MCPError"
      [] m.kind = "result"  -> "result"
      [] OTHER              -> "None"

\* _send_request leaves through finally.  Inside connect(): a result goes on
\* to the initialized notification, anything else to disconnect().
SendFinally(t) ==
    /\ thr[t].pc = "s_del"
    /\ response_queue' = RemovePending(response_queue, thr[t].rid)
    /\ thr' = IF thr[t].inConnect
              THEN IF SendOutcome(thr[t].resp) = "result"
                   THEN [thr EXCEPT ![t].pc = "c_finish"]
                   ELSE [thr EXCEPT ![t].pc = "d_flags"]
              ELSE Done(thr, t, SendOutcome(thr[t].resp))
    /\ UNCHANGED <<process, procs, stdinBuf, stdoutBuf, running, connectedFlag,
                   request_id, readers, sent>>
    /\ UNCHANGED nonClientVars

\* connect(): _send_notification("notifications/initialized") (written only
\* when the process is running), self._connected = True, return True; in
\* call_tool() the tools/call request follows.
ConnectFinish(t) ==
    /\ thr[t].pc = "c_finish"
    /\ stdinBuf' = IF ProcessGone THEN stdinBuf
                   ELSE [stdinBuf EXCEPT ![process] = Append(@, Initialized)]
    /\ connectedFlag' = TRUE
    /\ thr' = IF thr[t].op = "call"
              THEN [thr EXCEPT ![t].pc = "s_check", ![t].inConnect = FALSE,
                               ![t].rid = 0, ![t].resp = NoMsg]
              ELSE Done(thr, t, "True")
    /\ UNCHANGED <<process, procs, stdoutBuf, running, request_id, response_queue, readers, sent>>
    /\ UNCHANGED nonClientVars

\* A faulty disconnect() that starts the ids of the next session at 1 again
DiscFlagsResetIds(t) ==
    /\ thr[t].pc = "d_flags"
    /\ running' = FALSE
    /\ connectedFlag' = FALSE
    /\ request_id' = 0
    /\ thr' = [thr EXCEPT ![t].pc = "d_term"]
    /\ UNCHANGED <<process, procs, stdinBuf, stdoutBuf, response_queue, readers, sent>>
    /\ UNCHANGED nonClientVars

\* disconnect(): self._running = False; self._connected = False
DiscFlags(t) ==
    /\ thr[t].pc = "d_flags"
    /\ running' = FALSE
    /\ connectedFlag' = FALSE
    /\ thr' = [thr EXCEPT ![t].pc = "d_term"]
    /\ UNCHANGED <<process, procs, stdinBuf, stdoutBuf, request_id, response_queue, readers, sent>>
    /\ UNCHANGED nonClientVars

\* disconnect(): 'if self._process:' terminate it and wait for it (kill on
\* timeout).
DiscTerm(t) ==
    /\ thr[t].pc = "d_term"
    /\ procs' = IF process # 0 THEN [procs EXCEPT ![process] = "dead"] ELSE procs
    /\ thr' = [thr EXCEPT ![t].pc = IF process # 0 THEN "d_none" ELSE "d_end"]
    /\ UNCHANGED <<process, stdinBuf, stdoutBuf, running, connectedFlag,
                   request_id, response_queue, readers, sent>>
    /\ UNCHANGED nonClientVars

\* disconnect(): self._process = None
DiscNone(t) ==
    /\ thr[t].pc = "d_none"
    /\ process' = 0
    /\ thr' = [thr EXCEPT ![t].pc = "d_end"]
    /\ UNCHANGED <<procs, stdinBuf, stdoutBuf, running, connectedFlag,
                   request_id, response_queue, readers, sent>>
    /\ UNCHANGED nonClientVars

\* disconnect() returns: to its caller, or into connect(), which returns
\* False (call_tool() then raises MCPError(-1, "Not connected")).
DiscEnd(t) ==
    /\ thr[t].pc = "d_end"
    /\ thr' = IF thr[t].inConnect
              THEN IF thr[t].op = "call" THEN Done(thr, t, "MCPError") ELSE Done(thr, t, "False")
              ELSE Done(thr, t, "None")
    /\ UNCHANGED <<process, procs, stdinBuf, stdoutBuf, running, connectedFlag,
                   request_id, response_queue, readers, sent>>
    /\ UNCHANGED nonClientVars

\* _read_responses: 'while self._running and self._process and
\* self._process.poll() is None:' then readline() on that process's stdout.
ReaderLoop(r) ==
    /\ readers[r].pc = "r_loop"
    /\ readers' = IF running /\ ~ProcessGone
                  THEN [readers EXCEPT ![r].pc = "r_read", ![r].proc = process]
                  ELSE [readers EXCEPT ![r].pc = "r_exit", ![r].why = "loop_end"]
    /\ UNCHANGED <<process, procs, stdinBuf, stdoutBuf, running, connectedFlag,
                   request_id, response_queue, thr, sent>>
    /\ UNCHANGED nonClientVars

\* _read_responses: readline() returns a line.  line.decode('utf-8') stands
\* outside the try around json.loads: bytes that are not UTF-8 raise
\* UnicodeDecodeError, which 'except Exception' answers with break.  A line
\* that is text but not JSON is skipped; a message with an id whose id is in
\* self._response_queue goes on to the put; a notification is handled
\* (logged); the rest is ignored.
ReaderLine(r) ==
    /\ readers[r].pc = "r_read"
    /\ stdoutBuf[readers[r].proc] # <<>>
    /\ stdoutBuf' = [stdoutBuf EXCEPT ![readers[r].proc] = Tail(@)]
    /\ LET m == Head(stdoutBuf[readers[r].proc]) IN
       readers' = IF m.kind = "undecodable"
                  THEN [readers EXCEPT ![r].pc = "r_exit", ![r].why = "UnicodeDecodeError"]
                  ELSE IF HasId(m) /\ m.id \in DOMAIN response_queue
                  THEN [readers EXCEPT ![r].pc = "r_put", ![r].msg = m]
                  ELSE [readers EXCEPT ![r].pc = "r_loop"]
    /\ UNCHANGED <<process, procs, stdinBuf, running, connectedFlag,
                   request_id, response_queue, thr, sent>>
    /\ UNCHANGED nonClientVars

\* _read_responses: readline() returns b'' at end of file (the process is
\* gone): sleep, continue.
ReaderEOF(r) ==
    /\ readers[r].pc = "r_read"
    /\ stdoutBuf[readers[r].proc] = <<>>
    /\ procs[readers[r].proc] = "dead"
    /\ readers' = [readers EXCEPT ![r].pc = "r_loop"]
    /\ UNCHANGED <<process, procs, stdinBuf, stdoutBuf, running, connectedFlag,
                   request_id, response_queue, thr, sent>>
    /\ UNCHANGED nonClientVars

\* A faulty reader: put(message) on the queue of the oldest pending request
DeliverOldest(q, m) ==
    LET k == CHOOSE i \in DOMAIN q : \A j \in DOMAIN q : i <= j
    IN  [q EXCEPT ![k] = Append(@, m)]

\* self._response_queue[request_id].put(message)
Deliver(q, m) == [q EXCEPT ![m.id] = Append(@, m)]

\* _read_responses: the put; a KeyError (the entry was deleted since the
\* membership test) is caught by 'except Exception', which breaks the loop.
ReaderPut(r) ==
    /\ readers[r].pc = "r_put"
    /\ IF readers[r].msg.id \in DOMAIN response_queue
       THEN /\ response_queue' = Deliver(response_queue, readers[r].msg)
            /\ readers' = [readers EXCEPT ![r].pc = "r_loop", ![r].msg = NoMsg]
       ELSE /\ readers' = [readers EXCEPT ![r].pc = "r_exit", ![r].why = "KeyError"]
            /\ UNCHANGED response_queue
    /\ UNCHANGED <<process, procs, stdinBuf, stdoutBuf, running, connectedFlag,
                   request_id, thr, sent>>
    /\ UNCHANGED nonClientVars

\* _read_responses: after the loop, self._connected = False; the thread ends.
ReaderExit(r) ==
    /\ readers[r].pc = "r_exit"
    /\ connectedFlag' = FALSE
    /\ readers' = [readers EXCEPT ![r].pc = "ended"]
    /\ UNCHANGED <<process, procs, stdinBuf, stdoutBuf, running,
                   request_id, response_queue, thr, sent>>
    /\ UNCHANGED nonClientVars

\* The server process writes a line to its stdout (a message with an id
\* carries an id the client has handed out).
ServerSend(g, m) ==
    /\ procs[g] = "alive"
    /\ sent < MaxMsgs
    /\ m.id <= request_id
    /\ sent' = sent + 1
    /\ stdoutBuf' = [stdoutBuf EXCEPT ![g] = Append(@, m)]
    /\ UNCHANGED <<process, procs, stdinBuf, running, connectedFlag,
                   request_id, response_queue, readers, thr>>
    /\ UNCHANGED nonClientVars

\* The server process exits on its own.
ProcExit(g) ==
    /\ procs[g] = "alive"
    /\ procs' = [procs EXCEPT ![g] = "dead"]
    /\ UNCHANGED <<process, stdinBuf, stdoutBuf, running, connectedFlag,
                   request_id, response_queue, readers, thr, sent>>
    /\ UNCHANGED nonClientVars

\* One session: the calls of two threads against the first server process
\* the client starts, up to the end of that process.
ClientNext ==
    \/ \E t \in Threads : BeginConnect(t)
    \/ \E t \in Threads : BeginCall(t)
    \/ \E t \in Threads : ConnectSpawn(t, TRUE, {1})
    \/ \E t \in Threads : ConnectStart(t)
    \/ \E t \in Threads : SendCheck(t)
    \/ \E t \in Threads : SendWrite(t)
    \/ \E t \in Threads : SendGet(t)
    \/ \E t \in Threads : SendTimeout(t)
    \/ \E t \in Threads : SendFinally(t)
    \/ \E t \in Threads : ConnectFinish(t)
    \/ \E t \in Threads : DiscFlags(t)
    \/ \E t \in Threads : DiscTerm(t)
    \/ \E t \in Threads : DiscNone(t)
    \/ \E t \in Threads : DiscEnd(t)
    \/ \E r \in DOMAIN readers : ReaderLoop(r)
    \/ \E r \in DOMAIN readers : ReaderLine(r)
    \/ \E r \in DOMAIN readers : ReaderEOF(r)
    \/ \E r \in DOMAIN readers : ReaderPut(r)
    \/ \E r \in DOMAIN readers : ReaderExit(r)
    \/ \E g \in ProcIds, m \in ServerMsgs : ServerSend(g, m)
    \/ \E g \in ProcIds : ProcExit(g)

\* The answers of a server to the initialize request
InitializeResults == [kind : {"result"}, id : 1..MaxRequests]

\* A server answers a request that it has read from its stdin
ServerAnswer(g, m) ==
    /\ \E i \in DOMAIN stdinBuf[g] : stdinBuf[g][i] = m.id
    /\ ServerSend(g, m)

\* The client over its whole life: two threads that call connect(), the
\* first of which also calls disconnect(); each connect has a process of
\* its own, which ends only when disconnect() terminates it; the servers
\* answer the initialize requests.
LifecycleNext ==
    \/ \E t \in Threads : BeginConnect(t)
    \/ BeginDisconnect(1)
    \/ \E t \in Threads : ConnectSpawn(t, TRUE, ProcIds)
    \/ \E t \in Threads : ConnectStart(t)
    \/ \E t \in Threads : SendCheck(t)
    \/ \E t \in Threads : SendWrite(t)
    \/ \E t \in Threads : SendGet(t)
    \/ \E t \in Threads : SendTimeout(t)
    \/ \E t \in Threads : SendFinally(t)
    \/ \E t \in Threads : ConnectFinish(t)
    \/ \E t \in Threads : DiscFlags(t)
    \/ \E t \in Threads : DiscTerm(t)
    \/ \E t \in Threads : DiscNone(t)
    \/ \E t \in Threads : DiscEnd(t)
    \/ \E r \in DOMAIN readers : ReaderLoop(r)
    \/ \E r \in DOMAIN readers : ReaderLine(r)
    \/ \E r \in DOMAIN readers : ReaderEOF(r)
    \/ \E r \in DOMAIN readers : ReaderPut(r)
    \/ \E r \in DOMAIN readers : ReaderExit(r)
    \/ \E g \in ProcIds, m \in InitializeResults : ServerAnswer(g, m)

\* Connects that fail and are tried again: two threads call connect(), no
\* server answers, so every initialize request times out (or finds the
\* process gone) and connect() ends in disconnect(); the first thread also
\* calls disconnect() itself.  Two processes are spawned at most.
RetryProcs == {1, 2}

RetryNext ==
    \/ \E t \in Threads : BeginConnect(t)
    \/ BeginDisconnect(1)
    \/ \E t \in Threads : ConnectSpawn(t, TRUE, RetryProcs)
    \/ \E t \in Threads : ConnectStart(t)
    \/ \E t \in Threads : SendCheck(t)
    \/ \E t \in Threads : SendWrite(t)
    \/ \E t \in Threads : SendTimeout(t)
    \/ \E t \in Threads : SendFinally(t)
    \/ \E t \in Threads : DiscFlags(t)
    \/ \E t \in Threads : DiscTerm(t)
    \/ \E t \in Threads : DiscNone(t)
    \/ \E t \in Threads : DiscEnd(t)
    \/ \E r \in DOMAIN readers : ReaderLoop(r)
    \/ \E r \in DOMAIN readers : ReaderEOF(r)
    \/ \E r \in DOMAIN readers : ReaderExit(r)

\* The lines of a server that also writes text that is no JSON-RPC message
\* to its stdout: a line of text that is not JSON, and a line whose bytes
\* are not UTF-8 (text in another encoding).
NoisyMsgs == {[kind |-> "garbage", id |-> 0], [kind |-> "undecodable", id |-> 0]}

\* One session with such a server
NoisyNext ==
    \/ \E t \in Threads : BeginConnect(t)
    \/ \E t \in Threads : BeginCall(t)
    \/ \E t \in Threads : ConnectSpawn(t, TRUE, {1})
    \/ \E t \in Threads : ConnectStart(t)
    \/ \E t \in Threads : SendCheck(t)
    \/ \E t \in Threads : SendWrite(t)
    \/ \E t \in Threads : SendGet(t)
    \/ \E t \in Threads : SendTimeout(t)
    \/ \E t \in Threads : SendFinally(t)
    \/ \E t \in Threads : ConnectFinish(t)
    \/ \E t \in Threads : DiscFlags(t)
    \/ \E t \in Threads : DiscTerm(t)
    \/ \E t \in Threads : DiscNone(t)
    \/ \E t \in Threads : DiscEnd(t)
    \/ \E r \in DOMAIN readers : ReaderLoop(r)
    \/ \E r \in DOMAIN readers : ReaderLine(r)
    \/ \E r \in DOMAIN readers : ReaderEOF(r)
    \/ \E r \in DOMAIN readers : ReaderPut(r)
    \/ \E r \in DOMAIN readers : ReaderExit(r)
    \/ \E g \in ProcIds, m \in InitializeResults : ServerAnswer(g, m)
    \/ \E g \in ProcIds, m \in NoisyMsgs : ServerSend(g, m)

\* One thread connects, and connects again after the child process has
\* exited on its own; the servers answer the initialize requests.
ExitNext ==
    \/ BeginConnect(1)
    \/ ConnectSpawn(1, TRUE, RetryProcs)
    \/ ConnectStart(1)
    \/ SendCheck(1)
    \/ SendWrite(1)
    \/ SendGet(1)
    \/ SendTimeout(1)
    \/ SendFinally(1)
    \/ ConnectFinish(1)
    \/ DiscFlags(1)
    \/ DiscTerm(1)
    \/ DiscNone(1)
    \/ DiscEnd(1)
    \/ \E r \in DOMAIN readers : ReaderLoop(r)
    \/ \E r \in DOMAIN readers : ReaderLine(r)
    \/ \E r \in DOMAIN readers : ReaderEOF(r)
    \/ \E r \in DOMAIN readers : ReaderPut(r)
    \/ \E r \in DOMAIN readers : ReaderExit(r)
    \/ \E g \in RetryProcs, m \in InitializeResults : ServerAnswer(g, m)
    \/ \E g \in RetryProcs : ProcExit(g)

\* Every reader thread that can take a step takes one in the end (a thread
\* of its own, scheduled by the operating system), and so does the caller
\* inside connect(): its waits end with a message or with the timeout.
ReaderFairness ==
    /\ \A r \in RetryProcs :
           /\ WF_vars(r \in DOMAIN readers /\ ReaderLoop(r))
           /\ WF_vars(r \in DOMAIN readers /\ ReaderLine(r))
           /\ WF_vars(r \in DOMAIN readers /\ ReaderEOF(r))
           /\ WF_vars(r \in DOMAIN readers /\ ReaderPut(r))
           /\ WF_vars(r \in DOMAIN readers /\ ReaderExit(r))
    /\ WF_vars(ConnectSpawn(1, TRUE, RetryProcs))
    /\ WF_vars(ConnectStart(1))
    /\ WF_vars(SendCheck(1))
    /\ WF_vars(SendWrite(1))
    /\ WF_vars(SendGet(1))
    /\ WF_vars(SendTimeout(1))
    /\ WF_vars(SendFinally(1))
    /\ WF_vars(ConnectFinish(1))
    /\ WF_vars(DiscFlags(1))
    /\ WF_vars(DiscTerm(1))
    /\ WF_vars(DiscNone(1))
    /\ WF_vars(DiscEnd(1))

\* ---------------------------------------------------------------------
\* MCPClientManager and ToolRegistry
\* ---------------------------------------------------------------------
\* A dict is modelled as the sequence of its entries in insertion order;
\* every entry has a field name, its key.
Keys(d) == {d[i].name : i \in DOMAIN d}

IndexOf(d, k) == CHOOSE i \in DOMAIN d : d[i].name = k

\* d[e.name] = e
DictSet(d, e) ==
    IF e.name \in Keys(d) THEN [d EXCEPT ![IndexOf(d, e.name)] = e] ELSE Append(d, e)

\* The sequences over S of length 0..n
Lists(S, n) == {<<>>} \cup SeqsUpTo(S, n)

\* builtin_names of the start-up code
builtin_names ==
    <<"readFile", "writeFile", "appendFile", "listDir", "runCmd",
      "weather", "webSearch", "webFetch", "saveMemory", "searchMemory",
      "nexusBindSkill", "nexusUnbindSkill", "openInExplorer", "parseFile",
      "generateSkill">>

Range(s) == {s[i] : i \in DOMAIN s}

\* The server names that can stand in mcp-servers.json
AllServers == {"a", "b", "c"}

\* load_config() of the Manager on its own: three enabled servers
ManagerConfig == <<"a", "b", "c">>

\* load_config() as the registry's start-up finds it: two enabled servers
RegistryConfig == <<"a", "b">>

\* The tool names a server may list towards the Manager on its own; one of
\* them has the form of a qualified name.
ManagerToolNames == {"search", "mcp_b_search"}

\* The answers to tools/list towards the registry: one plain name, or the
\* name of a builtin and a plain name
RegistryToolLists == {<<"search">>, <<"readFile", "search">>}

\* qualified_name = f"mcp_{server_name}_{tool.name}"
Qualified(s, t) == "mcp_" \o s \o "_" \o t

\* _register_tools(server_name, tools).  An entry of _tools records its key,
\* the owning server and (for description and input_schema) the listed tool
\* it was made from.
RECURSIVE _register_tools(_, _, _)
_register_tools(m, s, list) ==
    IF list = <<>> THEN m
    ELSE LET t == Head(list)
             taken == t \in Keys(m.t2s)
             tool_key == IF taken THEN Qualified(s, t) ELSE t
             m1 == [tools |-> DictSet(m.tools, [name |-> tool_key, server |-> s, tool |-> t]),
                    t2s   |-> IF taken THEN m.t2s
                              ELSE DictSet(m.t2s, [name |-> t, server |-> s])]
         IN  _register_tools(m1, s, Tail(list))

\* What a connect attempt followed by list_tools() gives: no connection, or
\* the list of tool names
NoConnection == [ok |-> FALSE, list |-> <<>>]

ConnectResults(lists) == {NoConnection} \cup [ok : {TRUE}, list : lists]

\* The state of a Manager: _clients, the clients that are connected, _tools,
\* _tool_to_server and what each connected server listed last.
NewManager ==
    [clients |-> {}, live |-> {}, tools |-> <<>>, t2s |-> <<>>,
     listed |-> [s \in AllServers |-> <<>>]]

\* initialize_all(): the loop over the configs, from position i on.  res
\* gives for each server the result of connect() and list_tools().
RECURSIVE initialize_from(_, _, _, _)
initialize_from(M, configs, res, i) ==
    IF i > Len(configs) THEN M
    ELSE LET s == configs[i]
             r == _register_tools([tools |-> M.tools, t2s |-> M.t2s], s, res[s].list)
             M1 == IF res[s].ok
                   THEN [clients |-> M.clients \cup {s}, live |-> M.live \cup {s},
                         tools |-> r.tools, t2s |-> r.t2s,
                         listed |-> [M.listed EXCEPT ![s] = res[s].list]]
                   ELSE M
         IN  initialize_from(M1, configs, res, i + 1)

initialize_all(M, configs, res) == initialize_from(M, configs, res, 1)

\* The return value of initialize_all: success_count
success_count(configs, res) == Cardinality({i \in DOMAIN configs : res[configs[i]].ok})

\* reconnect_server(server_name) for a server in _clients: disconnect,
\* remove its tools (and the _tool_to_server entries with the same keys),
\* connect again and register what it lists.
reconnect_server(M, s, r) ==
    LET kept == SelectSeq(M.tools, LAMBDA e : e.server # s)
        gone == Keys(M.tools) \ Keys(kept)
        t2s1 == SelectSeq(M.t2s, LAMBDA e : e.name \notin gone)
        reg  == _register_tools([tools |-> kept, t2s |-> t2s1], s, r.list)
    IN  IF r.ok
        THEN [clients |-> M.clients, live |-> M.live \cup {s},
              tools |-> reg.tools, t2s |-> reg.t2s,
              listed |-> [M.listed EXCEPT ![s] = r.list]]
        ELSE [clients |-> M.clients, live |-> M.live \ {s},
              tools |-> kept, t2s |-> t2s1,
              listed |-> [M.listed EXCEPT ![s] = <<>>]]

\* tool_name.startswith(prefix)
StartsWith(name, prefix) ==
    Len(name) >= Len(prefix) /\ SubSeq(name, 1, Len(prefix)) = prefix

\* call_tool(): the name handed to the client of server_name: the part of
\* tool_name after f"mcp_{server_name}_" when tool_name starts with it,
\* tool_name itself otherwise
original_tool_name(tool_name, server_name) ==
    LET prefix == "mcp_" \o server_name \o "_"
    IN  IF StartsWith(tool_name, prefix)
        THEN SubSeq(tool_name, Len(prefix) + 1, Len(tool_name))
        ELSE tool_name

\* call_tool(tool_name, ...) on Manager M: ValueError for a name that is
\* not in _tools or whose server is not in _clients, otherwise the call
\* client.call_tool(original_tool_name, ...) on the owner's client
call_tool(M, tool_name) ==
    IF tool_name \notin Keys(M.tools)
    THEN [raised |-> "ValueError", server |-> "", tool |-> ""]
    ELSE LET server_name == M.tools[IndexOf(M.tools, tool_name)].server
         IN  IF server_name \notin M.clients
             THEN [raised |-> "ValueError", server |-> "", tool |-> ""]
             ELSE [raised |-> "", server |-> server_name,
                   tool |-> original_tool_name(tool_name, server_name)]

\* An entry of "servers" in mcp-servers.json: its enabled flag (True when
\* the key is absent) and whether it has a command
ValidEntry == [enabled |-> TRUE, command |-> TRUE]

ConfigEntries ==
    {ValidEntry, [enabled |-> FALSE, command |-> TRUE], [enabled |-> TRUE, command |-> FALSE]}

\* A faulty load_config() without the check of the enabled flag
RECURSIVE load_config_all(_, _, _)
load_config_all(file, names, i) ==
    IF i > Len(names) THEN <<>>
    ELSE (IF file[names[i]].command
          THEN <<[name |-> names[i], enabled |-> file[names[i]].enabled]>>
          ELSE <<>>)
             \o load_config_all(file, names, i + 1)

\* load_config(): the loop over servers.items() from position i on: an
\* entry with enabled false is passed over, for any other an
\* MCPServerConfig is built and kept when it has a command.
RECURSIVE load_config(_, _, _)
load_config(file, names, i) ==
    IF i > Len(names) THEN <<>>
    ELSE (IF file[names[i]].enabled /\ file[names[i]].command
          THEN <<[name |-> names[i], enabled |-> file[names[i]].enabled]>>
          ELSE <<>>)
             \o load_config(file, names, i + 1)

\* The names of a list of configs, in its order
ConfigNames(configs) == [i \in DOMAIN configs |-> configs[i].name]

\* No shutdown_all() since the Manager was initialized
NoShutdown == [invoked |-> {}, raised |-> {}]

\* self._clients in the order of its keys: the order of the configs
RECURSIVE ClientOrder(_, _, _)
ClientOrder(configs, clients, i) ==
    IF i > Len(configs) THEN <<>>
    ELSE (IF configs[i] \in clients THEN <<configs[i]>> ELSE <<>>)
             \o ClientOrder(configs, clients, i + 1)

\* A faulty loop of shutdown_all() without the try/except: the first
\* disconnect() that raises ends it
RECURSIVE disconnect_all_uncaught(_, _, _, _)
disconnect_all_uncaught(order, raising, i, acc) ==
    IF i > Len(order) THEN acc
    ELSE IF order[i] \in raising
         THEN [acc EXCEPT !.invoked = @ \cup {order[i]}, !.raised = @ \cup {order[i]},
                          !.escaped = TRUE]
         ELSE disconnect_all_uncaught(order, raising, i + 1,
                                      [acc EXCEPT !.invoked = @ \cup {order[i]}])

\* shutdown_all(), 'for name, client in self._clients.items()' from
\* position i on: client.disconnect() inside try/except Exception; raising
\* holds the clients whose disconnect() raises.
RECURSIVE disconnect_all(_, _, _, _)
disconnect_all(order, raising, i, acc) ==
    IF i > Len(order) THEN acc
    ELSE disconnect_all(order, raising, i + 1,
                        IF order[i] \in raising
                        THEN [acc EXCEPT !.invoked = @ \cup {order[i]},
                                         !.raised = @ \cup {order[i]}]
                        ELSE [acc EXCEPT !.invoked = @ \cup {order[i]}])

\* The Manager as one value
Manager ==
    [clients |-> mgr_clients, live |-> mgr_live, tools |-> mgr_tools,
     t2s |-> tool_to_server, listed |-> listed]

SetManager(M) ==
    /\ mgr_clients' = M.clients
    /\ mgr_live' = M.live
    /\ mgr_tools' = M.tools
    /\ tool_to_server' = M.t2s
    /\ listed' = M.listed

\* ---- ToolRegistry ----
\* A skill directory as the scan finds it: one with a manifest.json that
\* declares a tool (whose executable exists or not), or one with only a
\* SKILL.md.
SkillNames == {"readFile", "search"}

SkillDirs ==
    [kind : {"manifest"}, name : SkillNames, exe : BOOLEAN]
        \cup [kind : {"skill"}, name : SkillNames, exe : {TRUE}]

\* The scan visits, for each of the (at most two) skills directories, the
\* directories with a manifest and then those with a SKILL.md: a sequence
\* of skill directories is in scan order when its kinds form at most the
\* runs manifest, skill, manifest, skill.
KindChanges(f) == Cardinality({i \in 1..(Len(f) - 1) : f[i].kind # f[i + 1].kind})

ScanOrder(f) ==
    f # <<>> => KindChanges(f) + (IF f[1].kind = "skill" THEN 1 ELSE 0) <= 3

InsertAt(f, i, x) == SubSeq(f, 1, i - 1) \o <<x>> \o SubSeq(f, i, Len(f))

RemoveAt(f, i) == SubSeq(f, 1, i - 1) \o SubSeq(f, i + 1, Len(f))

\* A faulty check of a SKILL.md tool, which also looks at mcp_tools
InstructionConflictMcp(b, plugins, seen, name) ==
    name \in b \/ name \in Keys(plugins) \/ name \in seen \/ name \in Keys(mcp_tools)

\* scan_plugins, the check of a SKILL.md tool: 'if tool_name in
\* self.builtin_tools or tool_name in self.plugin_tools or tool_name in
\* seen_tools'
InstructionConflict(b, plugins, seen, name) ==
    name \in b \/ name \in Keys(plugins) \/ name \in seen

\* A faulty check of a manifest tool, without the look at the builtins
PluginSkippedNoBuiltin(b, seen, item) ==
    item.name = "" \/ item.name \in seen \/ ~item.exe

\* scan_plugins, the checks of a manifest tool: no toolName, seen_tools, the
\* executable (item.exe: exe_path.exists()), the builtins
PluginSkipped(b, seen, item) ==
    item.name = "" \/ item.name \in seen \/ ~item.exe \/ item.name \in b

\* A faulty loop over a manifest's tools that gives up the manifest at the
\* first tool it skips
RECURSIVE scan_manifest_break(_, _, _, _, _)
scan_manifest_break(b, acc, tools, dir, j) ==
    IF j > Len(tools) THEN acc
    ELSE IF PluginSkipped(b, acc.seen, tools[j]) THEN acc
    ELSE scan_manifest_break(b,
                             [acc EXCEPT !.plugin = DictSet(@, [name |-> tools[j].name,
                                                                dir |-> dir]),
                                         !.seen = @ \cup {tools[j].name}],
                             tools, dir, j + 1)

\* scan_plugins, 'for tool_spec in tools_list' from position j on: a tool
\* that fails a check is passed over with 'continue', any other is stored
\* in plugin_tools and its name added to seen_tools.
RECURSIVE scan_manifest(_, _, _, _, _)
scan_manifest(b, acc, tools, dir, j) ==
    IF j > Len(tools) THEN acc
    ELSE scan_manifest(b,
                       IF PluginSkipped(b, acc.seen, tools[j]) THEN acc
                       ELSE [acc EXCEPT !.plugin = DictSet(@, [name |-> tools[j].name,
                                                               dir |-> dir]),
                                        !.seen = @ \cup {tools[j].name}],
                       tools, dir, j + 1)

\* scan_plugins: the loop over the skill directories from position i on;
\* acc holds plugin_tools, instruction_tools and seen_tools.
RECURSIVE scan_from(_, _, _, _)
scan_from(b, acc, f, i) ==
    IF i > Len(f) THEN acc
    ELSE LET item == f[i]
             entry == [name |-> item.name, dir |-> i]
             next ==
                 IF item.kind = "manifest"
                 THEN scan_manifest(b, acc, <<item>>, i, 1)
                 ELSE IF InstructionConflict(b, acc.plugin, acc.seen, item.name) THEN acc
                      ELSE [acc EXCEPT !.instr = DictSet(@, entry),
                                       !.seen = @ \cup {item.name}]
         IN  scan_from(b, next, f, i + 1)

\* scan_plugins() with builtin names b, over the maps as they are
scan_plugins(b, plugins, instrs, f) ==
    scan_from(b, [plugin |-> plugins, instr |-> instrs, seen |-> {}], f, 1)

\* The loop that copies the Manager's tools into mcp_tools, skipping the
\* names in taken
RECURSIVE register_mcp(_, _, _, _)
register_mcp(taken, mcp, tools, i) ==
    IF i > Len(tools) THEN mcp
    ELSE register_mcp(taken,
                      IF tools[i].name \in taken THEN mcp ELSE DictSet(mcp, tools[i]),
                      tools, i + 1)

\* A faulty check of an MCP tool, without the look at the builtins
ScanConflictsNoBuiltin(b, plugins, instrs) == Keys(plugins) \cup Keys(instrs)

\* scan_mcp_servers: 'if tool_name in self.builtin_tools or tool_name in
\* self.plugin_tools or tool_name in self.instruction_tools'
ScanConflicts(b, plugins, instrs) == b \cup Keys(plugins) \cup Keys(instrs)

\* handle_mcp_reconnect: 'if tool_name not in self.registry.builtin_tools
\* and tool_name not in self.registry.plugin_tools'
ReconnectConflicts(b, plugins) == b \cup Keys(plugins)

\* scan_mcp_servers() after initialize_all gave Manager M
scan_mcp_servers(b, plugins, instrs, mcp, M, count) ==
    IF count > 0
    THEN register_mcp(ScanConflicts(b, plugins, instrs), mcp, M.tools, 1)
    ELSE mcp

\* list_all(): builtin, plugin, instruction, MCP entries in this order
ListAll(b, plugins, instrs, mcp) ==
    [i \in DOMAIN b |-> [name |-> b[i], type |-> "builtin", dir |-> 0, server |-> ""]]
    \o [i \in DOMAIN plugins |->
           [name |-> plugins[i].name, type |-> "plugin", dir |-> plugins[i].dir, server |-> ""]]
    \o [i \in DOMAIN instrs |->
           [name |-> instrs[i].name, type |-> "instruction", dir |-> instrs[i].dir, server |-> ""]]
    \o [i \in DOMAIN mcp |->
           [name |-> mcp[i].name, type |-> "mcp", dir |-> 0, server |-> mcp[i].server]]

\* The names that have an entry in BUILTIN_META
BUILTIN_META == {"nexusBindSkill", "nexusUnbindSkill", "parseFile", "generateSkill"}

\* The keys of the dict list_all() builds for a record: for a builtin
\* {'name', 'type', **meta}, with meta = BUILTIN_META.get(name, {}) holding
\* description and inputs; for the other three the literal dicts.
RecordFields(r) ==
    CASE r.type = "builtin" ->
             {"name", "type"} \cup
                 (IF r.name \in BUILTIN_META THEN {"description", "inputs"} ELSE {})
      [] r.type = "mcp" ->
             {"name", "type", "server", "description", "inputs", "dangerLevel", "version"}
      [] OTHER ->
             {"name", "type", "description", "inputs", "dangerLevel", "version"}

list_all == ListAll(builtin_tools, plugin_tools, instruction_tools, mcp_tools)

started == builtin_tools # <<>>

RegistryInit ==
    /\ builtin_tools = <<>>
    /\ plugin_tools = <<>>
    /\ instruction_tools = <<>>
    /\ mcp_tools = <<>>
    /\ mcp_manager = FALSE
    /\ mgr_clients = {}
    /\ mgr_live = {}
    /\ mgr_tools = <<>>
    /\ tool_to_server = <<>>
    /\ listed = [s \in AllServers |-> <<>>]
    /\ mgr_initialized = FALSE
    /\ shut_down = NoShutdown
    /\ config_file = [s \in AllServers |-> ValidEntry]
    /\ started_configs = {}
    /\ fs = <<>>
    /\ lastOp = "none"

\* Before the server starts, a skill directory appears on disk (at position
\* i of the scan order).
FsAdd(i, item) ==
    /\ ~started
    /\ Len(fs) < MaxSkillDirs
    /\ i \in 1..(Len(fs) + 1)
    /\ ScanOrder(InsertAt(fs, i, item))
    /\ fs' = InsertAt(fs, i, item)
    /\ lastOp' = "fs"
    /\ UNCHANGED <<builtin_tools, plugin_tools, instruction_tools, mcp_tools, mcp_manager, mgrVars>>
    /\ UNCHANGED nonRegVars

\* Before the server starts, a skill directory is removed from disk.
FsRemove(i) ==
    /\ ~started
    /\ i \in DOMAIN fs
    /\ ScanOrder(RemoveAt(fs, i))
    /\ fs' = RemoveAt(fs, i)
    /\ lastOp' = "fs"
    /\ UNCHANGED <<builtin_tools, plugin_tools, instruction_tools, mcp_tools, mcp_manager, mgrVars>>
    /\ UNCHANGED nonRegVars

\* The end of handle_skill_install and handle_skill_uninstall, and all of
\* handle_tools_reload: clear plugin_tools and instruction_tools, then
\* scan_plugins() over the disk f.
Rescan(f) ==
    LET sc == scan_plugins(Range(builtin_tools), <<>>, <<>>, f)
    IN  /\ plugin_tools' = sc.plugin
        /\ instruction_tools' = sc.instr

\* handle_skill_install: the cloned skill directory appears, then the
\* maps are cleared and scanned again.
handle_skill_install(i, item) ==
    /\ started
    /\ Len(fs) < MaxSkillDirs
    /\ i \in 1..(Len(fs) + 1)
    /\ ScanOrder(InsertAt(fs, i, item))
    /\ fs' = InsertAt(fs, i, item)
    /\ Rescan(fs')
    /\ lastOp' = "install"
    /\ UNCHANGED <<builtin_tools, mcp_tools, mcp_manager, mgrVars>>
    /\ UNCHANGED nonRegVars

\* handle_skill_uninstall: the skill directory is removed, then the maps
\* are cleared and scanned again.
handle_skill_uninstall(i) ==
    /\ started
    /\ i \in DOMAIN fs
    /\ ScanOrder(RemoveAt(fs, i))
    /\ fs' = RemoveAt(fs, i)
    /\ Rescan(fs')
    /\ lastOp' = "uninstall"
    /\ UNCHANGED <<builtin_tools, mcp_tools, mcp_manager, mgrVars>>
    /\ UNCHANGED nonRegVars

\* Start-up: register the builtins, scan_plugins(), scan_mcp_servers().
\* register_builtin(name, handler): self.builtin_tools[name] = handler; the
\* keys of a dict, in the order they were first set
register_builtin(b, name) == IF name \in Range(b) THEN b ELSE Append(b, name)

\* The loop over builtin_names at start-up, from position i on
RECURSIVE register_builtins(_, _, _)
register_builtins(b, names, i) ==
    IF i > Len(names) THEN b
    ELSE register_builtins(register_builtin(b, names[i]), names, i + 1)

Startup(res) ==
    /\ ~started
    /\ LET b == Range(builtin_names)
           sc == scan_plugins(b, plugin_tools, instruction_tools, fs)
           M == initialize_all(NewManager, RegistryConfig, res)
       IN  /\ builtin_tools' = register_builtins(builtin_tools, builtin_names, 1)
           /\ plugin_tools' = sc.plugin
           /\ instruction_tools' = sc.instr
           /\ SetManager(M)
           /\ mcp_tools' = scan_mcp_servers(b, sc.plugin, sc.instr, mcp_tools, M,
                                            success_count(RegistryConfig, res))
    /\ mcp_manager' = TRUE
    /\ mgr_initialized' = TRUE
    /\ shut_down' = NoShutdown
    /\ started_configs' = started_configs \cup
                              {[name |-> s, enabled |-> TRUE] : s \in Range(RegistryConfig)}
    /\ UNCHANGED config_file
    /\ lastOp' = "startup"
    /\ UNCHANGED fs
    /\ UNCHANGED nonRegVars

\* handle_tools_reload: clear plugin_tools and instruction_tools, then
\* scan_plugins().  (The disk is as the last scan saw it: after start-up it
\* changes only through the two handlers above.)
handle_tools_reload ==
    /\ started
    /\ Rescan(fs)
    /\ lastOp' = IF lastOp \in {"reload", "reload_again"} THEN "reload_again" ELSE "reload"
    /\ UNCHANGED <<builtin_tools, mcp_tools, mcp_manager, mgrVars, fs>>
    /\ UNCHANGED nonRegVars

\* handle_mcp_reload: clear mcp_tools, shutdown_all(), scan_mcp_servers()
\* (a new Manager, initialize_all, registration of its tools).
handle_mcp_reload(res) ==
    /\ started
    /\ LET M == initialize_all(NewManager, RegistryConfig, res)
       IN  /\ SetManager(M)
           /\ mcp_tools' = scan_mcp_servers(Range(builtin_tools), plugin_tools,
                                            instruction_tools, <<>>, M,
                                            success_count(RegistryConfig, res))
    /\ mgr_initialized' = TRUE
    /\ shut_down' = NoShutdown
    /\ started_configs' = started_configs \cup
                              {[name |-> s, enabled |-> TRUE] : s \in Range(RegistryConfig)}
    /\ UNCHANGED config_file
    /\ lastOp' = "mcp_reload"
    /\ UNCHANGED <<builtin_tools, plugin_tools, instruction_tools, mcp_manager, fs>>
    /\ UNCHANGED nonRegVars

\* handle_mcp_reconnect(server_name): reconnect_server; on success clear
\* mcp_tools and copy the Manager's tools again.
handle_mcp_reconnect(s, r) ==
    /\ started
    /\ mcp_manager
    /\ IF s \in mgr_clients
       THEN LET M == reconnect_server(Manager, s, r)
            IN  /\ SetManager(M)
                /\ mcp_tools' =
                       IF r.ok
                       THEN register_mcp(ReconnectConflicts(Range(builtin_tools), plugin_tools),
                                         <<>>, M.tools, 1)
                       ELSE mcp_tools
       ELSE UNCHANGED <<mcp_tools, mgr_clients, mgr_live, mgr_tools, tool_to_server, listed>>
    /\ lastOp' = "reconnect"
    /\ UNCHANGED <<builtin_tools, plugin_tools, instruction_tools, mcp_manager,
                   mgr_initialized, shut_down, config_file, started_configs, fs>>
    /\ UNCHANGED nonRegVars

RegistryNext ==
    \/ \E i \in 1..MaxSkillDirs, item \in SkillDirs : FsAdd(i, item)
    \/ \E i \in 1..MaxSkillDirs : FsRemove(i)
    \/ \E i \in 1..MaxSkillDirs, item \in SkillDirs : handle_skill_install(i, item)
    \/ \E i \in 1..MaxSkillDirs : handle_skill_uninstall(i)
    \/ \E res \in [Range(RegistryConfig) -> ConnectResults(RegistryToolLists)] : Startup(res)
    \/ handle_tools_reload
    \/ \E res \in [Range(RegistryConfig) -> ConnectResults(RegistryToolLists)] :
           handle_mcp_reload(res)
    \/ \E s \in Range(RegistryConfig), r \in ConnectResults(RegistryToolLists) :
           handle_mcp_reconnect(s, r)

\* ---- The Manager on its own ----
\* MCPClientManager.initialize_all() on a Manager that holds no clients
InitializeAll(res) ==
    /\ ~mgr_initialized
    /\ LET configs == load_config(config_file, ManagerConfig, 1)
       IN  /\ SetManager(initialize_all(Manager, ConfigNames(configs), res))
           /\ started_configs' = started_configs \cup Range(configs)
    /\ mgr_initialized' = TRUE
    /\ shut_down' = NoShutdown
    /\ UNCHANGED config_file
    /\ UNCHANGED <<builtin_tools, plugin_tools, instruction_tools, mcp_tools, mcp_manager,
                   fs, lastOp>>
    /\ UNCHANGED nonRegVars

\* MCPClientManager.reconnect_server(server_name); False for a server that
\* is not in _clients
ReconnectServer(s, r) ==
    /\ mgr_initialized
    /\ IF s \in mgr_clients
       THEN SetManager(reconnect_server(Manager, s, r))
       ELSE UNCHANGED <<mgr_clients, mgr_live, mgr_tools, tool_to_server, listed>>
    /\ UNCHANGED <<builtin_tools, plugin_tools, instruction_tools, mcp_tools, mcp_manager,
                   mgr_initialized, shut_down, config_file, started_configs, fs, lastOp>>
    /\ UNCHANGED nonRegVars

\* MCPClientManager.shutdown_all(): under the lock, disconnect() on every
\* client, then clear _clients, _tools and _tool_to_server and reset
\* _initialized.  An exception that left the loop would skip the clearing.
ShutdownAll(raising) ==
    /\ mgr_initialized
    /\ raising \subseteq mgr_clients
    /\ LET d == disconnect_all(ClientOrder(ManagerConfig, mgr_clients, 1), raising, 1,
                               [invoked |-> {}, raised |-> {}, escaped |-> FALSE])
       IN  /\ shut_down' = [invoked |-> d.invoked, raised |-> d.raised]
           /\ IF d.escaped
              THEN /\ mgr_live' = mgr_live \ d.invoked
                   /\ UNCHANGED <<mgr_clients, mgr_tools, tool_to_server, listed,
                                  mgr_initialized>>
              ELSE /\ SetManager(NewManager)
                   /\ mgr_initialized' = FALSE
    /\ UNCHANGED <<config_file, started_configs>>
    /\ UNCHANGED <<builtin_tools, plugin_tools, instruction_tools, mcp_tools, mcp_manager,
                   fs, lastOp>>
    /\ UNCHANGED nonRegVars

ManagerNext ==
    \/ \E res \in [AllServers -> ConnectResults(Lists(ManagerToolNames, MaxListed))] :
           InitializeAll(res)
    \/ \E s \in AllServers, r \in ConnectResults(Lists(ManagerToolNames, MaxListed)) :
           ReconnectServer(s, r)
    \/ \E raising \in SUBSET AllServers : ShutdownAll(raising)

\* Someone edits mcp-servers.json: the entry of server s becomes e
EditConfig(s, e) ==
    /\ config_file[s] # e
    /\ config_file' = [config_file EXCEPT ![s] = e]
    /\ UNCHANGED <<mgr_clients, mgr_live, mgr_tools, tool_to_server, listed, mgr_initialized,
                   shut_down, started_configs>>
    /\ UNCHANGED <<builtin_tools, plugin_tools, instruction_tools, mcp_tools, mcp_manager,
                   fs, lastOp>>
    /\ UNCHANGED nonRegVars

\* A server fails to connect, or connects and lists one tool
ConfigResults == ConnectResults({<<"search">>})

\* The Manager with a configuration file that changes between its
\* operations (reload_config() is ShutdownAll followed by InitializeAll)
ConfigNext ==
    \/ \E s \in AllServers, e \in ConfigEntries : EditConfig(s, e)
    \/ \E res \in [AllServers -> ConfigResults] : InitializeAll(res)
    \/ \E s \in AllServers, r \in ConfigResults : ReconnectServer(s, r)
    \/ \E raising \in SUBSET AllServers : ShutdownAll(raising)

\* ---- One manifest with several tools ----
MaxTools == 3    \* tools declared in one manifest

\* The tools a manifest can declare: a toolName (possibly none) and whether
\* the executable it names exists
ManifestToolNames == {"", "readFile", "search", "fetch"}

ToolSpecs == [name : ManifestToolNames, exe : BOOLEAN]

NoScan == [done |-> FALSE, plugin |-> <<>>, seen |-> {}]

\* Outside a scan of this manifest
ManifestInit ==
    /\ manifest_tools = <<>>
    /\ seen_before = {}
    /\ scanned = NoScan

\* Some manifest, reached by the scan after earlier directories claimed
\* some names
ManifestDrawn ==
    /\ manifest_tools \in Lists(ToolSpecs, MaxTools)
    /\ seen_before \in SUBSET {"search", "fetch"}
    /\ scanned = NoScan

\* scan_plugins reaches the manifest and runs the loop over its tools
ScanManifest ==
    /\ ~scanned.done
    /\ LET acc == scan_manifest(Range(builtin_names),
                                [plugin |-> <<>>, instr |-> <<>>, seen |-> seen_before],
                                manifest_tools, 1, 1)
       IN  scanned' = [done |-> TRUE, plugin |-> acc.plugin, seen |-> acc.seen]
    /\ UNCHANGED <<manifest_tools, seen_before>>
    /\ UNCHANGED <<agentVars, clientVars, regVars, dispatchVars, reloadVars, lockVars>>

\* ---------------------------------------------------------------------
\* Dispatch of a tool call
\* ---------------------------------------------------------------------
\* What a call ends with: an exception (raised is its class) or a value
Raise(exc) == [raised |-> exc, value |-> ""]

Return(v) == [raised |-> "", value |-> v]

\* What the process or server behind each kind of tool can do
PluginOutcomes == {"ok", "unsupported_runtime", "nonzero_exit", "timeout", "no_interpreter"}

InstructionOutcomes ==
    {"ok", "executor_missing", "nonzero_exit", "not_success", "timeout", "non_json"}

McpOutcomes == {"ok", "no_result", "isError", "MCPError", "TimeoutError"}

BuiltinOutcomes == {"ok", "raises"}

\* The outcomes that are no failure: the tool ran and gave output (the
\* skill executor's output that is not JSON is handed on as it is; an MCP
\* answer without result gives the empty string)
NoFailure == {"ok", "non_json", "no_result"}

\* _execute_plugin_tool
_execute_plugin_tool(oc) ==
    CASE oc = "unsupported_runtime" -> Raise("ValueError")
      [] oc = "no_interpreter"      -> Raise("FileNotFoundError")
      [] oc = "nonzero_exit"        -> Raise("RuntimeError")
      [] oc = "timeout"             -> Raise("RuntimeError")
      [] OTHER                      -> Return("stdout")

\* _execute_instruction_tool
_execute_instruction_tool(oc) ==
    CASE oc = "executor_missing" -> Raise("RuntimeError")
      [] oc = "nonzero_exit"     -> Raise("RuntimeError")
      [] oc = "not_success"      -> Raise("RuntimeError")
      [] oc = "timeout"          -> Raise("RuntimeError")
      [] oc = "non_json"         -> Return("stdout")
      [] OTHER                   -> Return("instructions")

\* MCPClient.call_tool as its caller sees it
client_call_tool(oc) ==
    CASE oc = "isError"      -> Raise("MCPError")
      [] oc = "MCPError"     -> Raise("MCPError")
      [] oc = "TimeoutError" -> Raise("TimeoutError")
      [] oc = "no_result"    -> Return("None")
      [] OTHER               -> Return("content")

\* _execute_mcp_tool: RuntimeError without a Manager; every exception of
\* mcp_manager.call_tool is raised again as RuntimeError; None becomes "".
_execute_mcp_tool(tool_name, oc) ==
    IF ~mcp_manager THEN Raise("RuntimeError")
    ELSE IF call_tool(Manager, tool_name).raised # "" THEN Raise("RuntimeError")
    ELSE IF client_call_tool(oc).raised # "" THEN Raise("RuntimeError")
    ELSE IF client_call_tool(oc).value = "None" THEN Return("")
    ELSE Return(client_call_tool(oc).value)

\* The keys of builtin_handlers in handle_tool_execution
builtin_handlers == Range(builtin_names)

\* The builtin branch: handler(args), ValueError without a handler
execute_builtin(tool_name, oc) ==
    IF tool_name \notin builtin_handlers THEN Raise("ValueError")
    ELSE IF oc = "raises" THEN Raise("Exception")
    ELSE Return("output")

\* ToolRegistry.is_registered
is_registered(name) ==
    \/ name \in Range(builtin_tools)
    \/ name \in Keys(plugin_tools)
    \/ name \in Keys(instruction_tools)
    \/ name \in Keys(mcp_tools)

\* A faulty chain of branches that looks at the MCP map first
RouteMcpFirst(name) ==
    IF name \in Keys(mcp_tools) THEN "mcp"
    ELSE IF name \in Keys(instruction_tools) THEN "instruction"
    ELSE IF name \in Keys(plugin_tools) THEN "plugin"
    ELSE "builtin"

\* The branch handle_tool_execution takes for a registered name
Route(name) ==
    IF name \in Keys(instruction_tools) THEN "instruction"
    ELSE IF name \in Keys(plugin_tools) THEN "plugin"
    ELSE IF name \in Keys(mcp_tools) THEN "mcp"
    ELSE "builtin"

RouteOutcomes(route) ==
    CASE route = "instruction" -> InstructionOutcomes
      [] route = "plugin"      -> PluginOutcomes
      [] route = "mcp"         -> McpOutcomes
      [] OTHER                 -> BuiltinOutcomes

Execute(name, oc) ==
    CASE Route(name) = "instruction" -> _execute_instruction_tool(oc)
      [] Route(name) = "plugin"      -> _execute_plugin_tool(oc)
      [] Route(name) = "mcp"         -> _execute_mcp_tool(name, oc)
      [] OTHER                       -> execute_builtin(name, oc)

\* A faulty handler that catches RuntimeError only
CaughtRuntimeOnly(exc) == exc = "RuntimeError"

\* 'except Exception': every exception class of the executors derives from
\* Exception
Caught(exc) ==
    exc \in {"RuntimeError", "ValueError", "FileNotFoundError", "MCPError",
             "TimeoutError", "Exception"}

\* The names a caller may ask for
DispatchNames ==
    {"readFile", "search", "mcp_b_search", "no_such_tool", "mcp__quest__search_codebase"}

NoResponse ==
    [route |-> "none", status |-> "none", failed |-> FALSE, escaped |-> ""]

DispatchInit == response = NoResponse

\* handle_tool_execution: 403 with status 'error' for a name that is not
\* registered; otherwise the branches inside try, 'except Exception' turning
\* an exception into status 'error'; then send_json.  failed records that
\* the executor met one of its failures or the Manager refused the call.
handle_tool_execution(tool_name, oc) ==
    /\ started
    /\ IF ~is_registered(tool_name)
       THEN /\ oc = "ok"
            /\ response' = [route |-> "unregistered", status |-> "error",
                            failed |-> TRUE, escaped |-> ""]
       ELSE /\ oc \in RouteOutcomes(Route(tool_name))
            /\ LET ex == Execute(tool_name, oc)
                   failed ==
                       \/ oc \notin NoFailure
                       \/ Route(tool_name) = "mcp"
                            /\ call_tool(Manager, tool_name).raised # ""
               IN  response' =
                       IF ex.raised = ""
                       THEN [route |-> Route(tool_name), status |-> "success",
                             failed |-> failed, escaped |-> ""]
                       ELSE IF Caught(ex.raised)
                       THEN [route |-> Route(tool_name), status |-> "error",
                             failed |-> failed, escaped |-> ""]
                       ELSE [route |-> Route(tool_name), status |-> "none",
                             failed |-> failed, escaped |-> ex.raised]
    /\ UNCHANGED nonDispatchVars

\* SubagentManager._execute_tool: a name that starts with 'mcp__' goes to
\* mcp_manager.call_tool inside try/except; any other name gives status
\* 'error'.
_execute_tool(tool_name, oc) ==
    /\ started
    /\ IF StartsWith(tool_name, "mcp__") /\ mcp_manager
       THEN /\ oc \in McpOutcomes
            /\ LET refused == call_tool(Manager, tool_name).raised # ""
                   ex == IF refused THEN Raise("ValueError") ELSE client_call_tool(oc)
               IN  response' =
                       [route |-> "subagent",
                        status |-> IF ex.raised = "" THEN "success" ELSE "error",
                        failed |-> refused \/ oc \notin NoFailure, escaped |-> ""]
       ELSE /\ oc = "ok"
            /\ response' = [route |-> "subagent",
                            status |-> "error", failed |-> TRUE, escaped |-> ""]
    /\ UNCHANGED nonDispatchVars

AllOutcomes == PluginOutcomes \cup InstructionOutcomes \cup McpOutcomes \cup BuiltinOutcomes

\* Start-up over some disk, reconnects, and tool calls
DispatchNext ==
    \/ \E i \in 1..MaxSkillDirs, item \in SkillDirs : FsAdd(i, item)
    \/ \E i \in 1..MaxSkillDirs : FsRemove(i)
    \/ \E res \in [Range(RegistryConfig) -> ConnectResults(RegistryToolLists)] : Startup(res)
    \/ \E s \in Range(RegistryConfig), r \in ConnectResults(RegistryToolLists) :
           handle_mcp_reconnect(s, r)
    \/ \E n \in DispatchNames, oc \in AllOutcomes : handle_tool_execution(n, oc)
    \/ \E n \in DispatchNames, oc \in AllOutcomes : _execute_tool(n, oc)

\* For each executor, its success and one of its failures
PrecedenceOutcomes == {"ok", "nonzero_exit", "MCPError", "raises"}

\* Start-up over some disk, reconnects (a server that connects lists the
\* tool 'search'), and tool calls through handle_tool_execution
PrecedenceNext ==
    \/ \E i \in 1..MaxSkillDirs, item \in SkillDirs : FsAdd(i, item)
    \/ \E i \in 1..MaxSkillDirs : FsRemove(i)
    \/ \E res \in [Range(RegistryConfig) -> ConfigResults] : Startup(res)
    \/ \E s \in Range(RegistryConfig), r \in ConfigResults : handle_mcp_reconnect(s, r)
    \/ \E n \in DispatchNames, oc \in PrecedenceOutcomes : handle_tool_execution(n, oc)

\* ---------------------------------------------------------------------
\* handle_tools_reload next to a request that reads the registry
\* ---------------------------------------------------------------------
\* The server is a ThreadingHTTPServer: each request runs in a thread of its
\* own, and the ToolRegistry has no lock.  handle_tools_reload is taken
\* statement by statement, and scan_plugins() directory by directory.
ReloadIdle == [pc |-> "idle", dirs |-> 0]

NoLookup == [name |-> "", found |-> FALSE]

ReloadInit ==
    /\ reload_pc = ReloadIdle
    /\ looked = NoLookup

\* The names another request asks is_registered() for
LookupNames == SkillNames \cup {"runCmd"}

\* handle_tools_reload: self.registry.plugin_tools.clear()
ReloadClearPlugins ==
    /\ started
    /\ reload_pc.pc = "idle"
    /\ plugin_tools' = <<>>
    /\ reload_pc' = [pc |-> "clear_instructions", dirs |-> 0]
    /\ UNCHANGED <<builtin_tools, instruction_tools, mcp_tools, mcp_manager, fs, lastOp, mgrVars>>
    /\ UNCHANGED looked
    /\ UNCHANGED <<agentVars, clientVars, dispatchVars, scanVars, lockVars>>

\* handle_tools_reload: self.registry.instruction_tools.clear()
ReloadClearInstructions ==
    /\ reload_pc.pc = "clear_instructions"
    /\ instruction_tools' = <<>>
    /\ reload_pc' = [pc |-> "scan", dirs |-> 0]
    /\ UNCHANGED <<builtin_tools, plugin_tools, mcp_tools, mcp_manager, fs, lastOp, mgrVars>>
    /\ UNCHANGED looked
    /\ UNCHANGED <<agentVars, clientVars, dispatchVars, scanVars, lockVars>>

\* scan_plugins() inside the reload visits its next skill directory: the
\* maps, cleared above, hold what the scan of the directories visited so
\* far registers.
ReloadScanDir ==
    /\ reload_pc.pc = "scan"
    /\ reload_pc.dirs < Len(fs)
    /\ LET sc == scan_plugins(Range(builtin_tools), <<>>, <<>>,
                              SubSeq(fs, 1, reload_pc.dirs + 1))
       IN  /\ plugin_tools' = sc.plugin
           /\ instruction_tools' = sc.instr
    /\ reload_pc' = [reload_pc EXCEPT !.dirs = @ + 1]
    /\ UNCHANGED <<builtin_tools, mcp_tools, mcp_manager, fs, lastOp, mgrVars>>
    /\ UNCHANGED looked
    /\ UNCHANGED <<agentVars, clientVars, dispatchVars, scanVars, lockVars>>

\* handle_tools_reload: the scan is over; list_all() and send_json.
ReloadFinish ==
    /\ reload_pc.pc = "scan"
    /\ reload_pc.dirs = Len(fs)
    /\ reload_pc' = ReloadIdle
    /\ lastOp' = "reload"
    /\ UNCHANGED <<builtin_tools, plugin_tools, instruction_tools, mcp_tools, mcp_manager,
                   fs, mgrVars>>
    /\ UNCHANGED looked
    /\ UNCHANGED <<agentVars, clientVars, dispatchVars, scanVars, lockVars>>

\* Another request thread evaluates self.registry.is_registered(name)
\* (handle_tool_execution does so first).
LookUp(name) ==
    /\ started
    /\ looked' = [name |-> name, found |-> is_registered(name)]
    /\ UNCHANGED reload_pc
    /\ UNCHANGED <<agentVars, clientVars, regVars, dispatchVars, scanVars, lockVars>>

\* The registry after start-up, with the disk left alone: a reload and the
\* look-ups of another request.
ReloadNext ==
    \/ \E i \in 1..MaxSkillDirs, item \in SkillDirs : FsAdd(i, item)
    \/ \E i \in 1..MaxSkillDirs : FsRemove(i)
    \/ \E res \in [Range(RegistryConfig) -> {NoConnection}] : Startup(res)
    \/ ReloadClearPlugins
    \/ ReloadClearInstructions
    \/ ReloadScanDir
    \/ ReloadFinish
    \/ \E name \in LookupNames : LookUp(name)

\* ---------------------------------------------------------------------
\* scan_plugins() called on a registry that was scanned before
\* ---------------------------------------------------------------------
\* While the server runs, a skill directory is removed from disk by hand.
DiskRemove(i) ==
    /\ started
    /\ i \in DOMAIN fs
    /\ ScanOrder(RemoveAt(fs, i))
    /\ fs' = RemoveAt(fs, i)
    /\ lastOp' = "fs"
    /\ UNCHANGED <<builtin_tools, plugin_tools, instruction_tools, mcp_tools, mcp_manager, mgrVars>>
    /\ UNCHANGED nonRegVars

\* ToolRegistry.scan_plugins() on its own: it starts from self.plugin_tools
\* and self.instruction_tools as they are and sets the entries of the tools
\* it finds.
ScanAgain ==
    /\ started
    /\ LET sc == scan_plugins(Range(builtin_tools), plugin_tools, instruction_tools, fs)
       IN  /\ plugin_tools' = sc.plugin
           /\ instruction_tools' = sc.instr
    /\ lastOp' = "scan"
    /\ UNCHANGED <<builtin_tools, mcp_tools, mcp_manager, mgrVars, fs>>
    /\ UNCHANGED nonRegVars

RescanNext ==
    \/ \E i \in 1..MaxSkillDirs, item \in SkillDirs : FsAdd(i, item)
    \/ \E i \in 1..MaxSkillDirs : FsRemove(i)
    \/ \E res \in [Range(RegistryConfig) -> {NoConnection}] : Startup(res)
    \/ \E i \in 1..MaxSkillDirs : DiskRemove(i)
    \/ ScanAgain

\* ---------------------------------------------------------------------
\* The Manager's lock: reconnect_server and shutdown_all step by step
\* ---------------------------------------------------------------------
\* Two request threads call into the Manager.
MThreads == {1, 2}

MIdle == [op |-> "none", pc |-> "idle", server |-> "", todo |-> <<>>, res |-> NoConnection]

LockInit ==
    /\ mgr_lock = 0
    /\ mthr = [t \in MThreads |-> MIdle]

\* The positions at which a thread waits for a child process to exit:
\* client.disconnect() is at self._process.wait(timeout=5)
WaitsForExit == {"rc_wait", "sd_wait"}

lockRegUnchanged ==
    UNCHANGED <<builtin_tools, plugin_tools, instruction_tools, mcp_tools, mcp_manager,
                fs, lastOp, config_file, started_configs>>

\* initialize_all() at start-up, before any request is served
LockInitialize(res) ==
    /\ mgr_lock = 0
    /\ \A t \in MThreads : mthr[t] = MIdle
    /\ InitializeAll(res)

\* reconnect_server: 'with self._lock:', client = self._clients.get(name);
\* 'if not client: return False' leaves the with block at once.
RcLock(t, s) ==
    /\ mgr_initialized
    /\ mthr[t].pc = "idle"
    /\ mgr_lock = 0
    /\ IF s \in mgr_clients
       THEN /\ mgr_lock' = t
            /\ mthr' = [mthr EXCEPT ![t] = [MIdle EXCEPT !.op = "reconnect",
                                                         !.pc = "rc_disconnect",
                                                         !.server = s]]
       ELSE /\ mthr' = [mthr EXCEPT ![t] = [MIdle EXCEPT !.op = "reconnect", !.server = s]]
            /\ UNCHANGED mgr_lock
    /\ UNCHANGED <<mgr_clients, mgr_live, mgr_tools, tool_to_server, listed, mgr_initialized,
                   shut_down>>
    /\ lockRegUnchanged
    /\ UNCHANGED <<agentVars, clientVars, dispatchVars, scanVars, reloadVars>>

\* reconnect_server: client.disconnect() clears the client's flags,
\* terminates the process and starts to wait for it.
RcDisconnect(t) ==
    /\ mthr[t].pc = "rc_disconnect"
    /\ mgr_live' = mgr_live \ {mthr[t].server}
    /\ mthr' = [mthr EXCEPT ![t].pc = "rc_wait"]
    /\ UNCHANGED <<mgr_lock, mgr_clients, mgr_tools, tool_to_server, listed, mgr_initialized,
                   shut_down>>
    /\ lockRegUnchanged
    /\ UNCHANGED <<agentVars, clientVars, dispatchVars, scanVars, reloadVars>>

\* reconnect_server: the wait is over (the process has exited, or the
\* timeout has passed and it was killed); the tools of the server are
\* removed and the with block ends.
RcRemove(t) ==
    /\ mthr[t].pc = "rc_wait"
    /\ LET kept == SelectSeq(mgr_tools, LAMBDA e : e.server # mthr[t].server)
           gone == Keys(mgr_tools) \ Keys(kept)
       IN  /\ mgr_tools' = kept
           /\ tool_to_server' = SelectSeq(tool_to_server, LAMBDA e : e.name \notin gone)
    /\ mgr_lock' = 0
    /\ mthr' = [mthr EXCEPT ![t].pc = "rc_connect"]
    /\ UNCHANGED <<mgr_clients, mgr_live, listed, mgr_initialized, shut_down>>
    /\ lockRegUnchanged
    /\ UNCHANGED <<agentVars, clientVars, dispatchVars, scanVars, reloadVars>>

\* reconnect_server: client.connect() and client.list_tools(), outside the
\* lock; r is what they come to.
RcConnect(t, r) ==
    /\ mthr[t].pc = "rc_connect"
    /\ mthr' = [mthr EXCEPT ![t].pc = "rc_register", ![t].res = r]
    /\ UNCHANGED <<mgr_lock, mgr_clients, mgr_live, mgr_tools, tool_to_server, listed,
                   mgr_initialized, shut_down>>
    /\ lockRegUnchanged
    /\ UNCHANGED <<agentVars, clientVars, dispatchVars, scanVars, reloadVars>>

\* reconnect_server: _register_tools (under the lock) after a connect that
\* worked, and the return.
RcRegister(t) ==
    /\ mthr[t].pc = "rc_register"
    /\ mgr_lock = 0
    /\ SetManager(reconnect_server(Manager, mthr[t].server, mthr[t].res))
    /\ mthr' = [mthr EXCEPT ![t] = MIdle]
    /\ UNCHANGED <<mgr_lock, mgr_initialized, shut_down>>
    /\ lockRegUnchanged
    /\ UNCHANGED <<agentVars, clientVars, dispatchVars, scanVars, reloadVars>>

\* shutdown_all: 'with self._lock:' and the start of the loop over
\* self._clients.
SdLock(t) ==
    /\ mgr_initialized
    /\ mthr[t].pc = "idle"
    /\ mgr_lock = 0
    /\ mgr_lock' = t
    /\ mthr' = [mthr EXCEPT ![t] = [MIdle EXCEPT !.op = "shutdown", !.pc = "sd_loop",
                                                 !.todo = ClientOrder(ManagerConfig,
                                                                      mgr_clients, 1)]]
    /\ shut_down' = NoShutdown
    /\ UNCHANGED <<mgr_clients, mgr_live, mgr_tools, tool_to_server, listed, mgr_initialized>>
    /\ lockRegUnchanged
    /\ UNCHANGED <<agentVars, clientVars, dispatchVars, scanVars, reloadVars>>

\* shutdown_all: client.disconnect() on the next client, up to its wait
\* for the process.
SdDisconnect(t) ==
    /\ mthr[t].pc = "sd_loop"
    /\ mthr[t].todo # <<>>
    /\ mgr_live' = mgr_live \ {Head(mthr[t].todo)}
    /\ shut_down' = [shut_down EXCEPT !.invoked = @ \cup {Head(mthr[t].todo)}]
    /\ mthr' = [mthr EXCEPT ![t].pc = "sd_wait", ![t].server = Head(mthr[t].todo)]
    /\ UNCHANGED <<mgr_lock, mgr_clients, mgr_tools, tool_to_server, listed, mgr_initialized>>
    /\ lockRegUnchanged
    /\ UNCHANGED <<agentVars, clientVars, dispatchVars, scanVars, reloadVars>>

\* shutdown_all: the wait is over, on to the next client.
SdWaited(t) ==
    /\ mthr[t].pc = "sd_wait"
    /\ mthr' = [mthr EXCEPT ![t].pc = "sd_loop", ![t].todo = Tail(@)]
    /\ UNCHANGED <<mgr_lock, mgr_clients, mgr_live, mgr_tools, tool_to_server, listed,
                   mgr_initialized, shut_down>>
    /\ lockRegUnchanged
    /\ UNCHANGED <<agentVars, clientVars, dispatchVars, scanVars, reloadVars>>

\* shutdown_all: after the loop the three clear() calls and
\* self._initialized = False; the with block ends.
SdClear(t) ==
    /\ mthr[t].pc = "sd_loop"
    /\ mthr[t].todo = <<>>
    /\ SetManager(NewManager)
    /\ mgr_initialized' = FALSE
    /\ mgr_lock' = 0
    /\ mthr' = [mthr EXCEPT ![t] = MIdle]
    /\ UNCHANGED shut_down
    /\ lockRegUnchanged
    /\ UNCHANGED <<agentVars, clientVars, dispatchVars, scanVars, reloadVars>>

LockNext ==
    \/ \E res \in [AllServers -> ConfigResults] : LockInitialize(res)
    \/ \E t \in MThreads, s \in AllServers : RcLock(t, s)
    \/ \E t \in MThreads : RcDisconnect(t)
    \/ \E t \in MThreads : RcRemove(t)
    \/ \E t \in MThreads, r \in ConfigResults : RcConnect(t, r)
    \/ \E t \in MThreads : RcRegister(t)
    \/ \E t \in MThreads : SdLock(t)
    \/ \E t \in MThreads : SdDisconnect(t)
    \/ \E t \in MThreads : SdWaited(t)
    \/ \E t \in MThreads : SdClear(t)

\* ---------------------------------------------------------------------
\* Specifications
\* ---------------------------------------------------------------------
Init == AgentInit /\ ClientInit /\ RegistryInit /\ DispatchInit /\ ManifestInit /\ ReloadInit /\ LockInit

ScanInit == AgentInit /\ ClientInit /\ RegistryInit /\ DispatchInit /\ ManifestDrawn /\ ReloadInit /\ LockInit

SpecAgent == Init /\ [][AgentNext]_vars

SpecCollect == Init /\ [][CollectNext]_vars

SpecQueue == Init /\ [][QueueNext]_vars

SpecAgentLive == Init /\ [][LiveNext]_vars /\ LiveFairness

SpecClient == Init /\ [][ClientNext]_vars

SpecLifecycle == Init /\ [][LifecycleNext]_vars

SpecRetry == Init /\ [][RetryNext]_vars

SpecNoisy == Init /\ [][NoisyNext]_vars

SpecExit == Init /\ [][ExitNext]_vars /\ ReaderFairness

SpecRegistry == Init /\ [][RegistryNext]_vars

SpecManager == Init /\ [][ManagerNext]_vars

SpecConfig == Init /\ [][ConfigNext]_vars

SpecDispatch == Init /\ [][DispatchNext]_vars

SpecPrecedence == Init /\ [][PrecedenceNext]_vars

SpecReload == Init /\ [][ReloadNext]_vars

SpecRescan == Init /\ [][RescanNext]_vars

SpecLocks == Init /\ [][LockNext]_vars

SpecScan == ScanInit /\ [][ScanManifest]_vars

\* ---------------------------------------------------------------------
\* Claims about the SubagentManager
\* ---------------------------------------------------------------------

\* C1: the number of records whose status is 'running' never exceeds
\* MAX_CONCURRENT, under any interleaving of spawn() calls and workers.
C1_RunningNeverExceedsMax == running_count <= MAX_CONCURRENT

AllowedTransitions ==
    {<<"pending", "running">>, <<"running", "completed">>,
     <<"running", "failed">>, <<"pending", "queued">>}

\* C4: every status change of a record is pending->running,
\* running->completed, running->failed or pending->queued; a completed or
\* failed record never changes status again.
C4_OnlyAllowedTransitions ==
    [][\A a \in DOMAIN agents \cap DOMAIN agents' :
          agents'[a].status # agents[a].status
              => <<agents[a].status, agents'[a].status>> \in AllowedTransitions]_vars

HasRecord(a) == a \in DOMAIN agents

\* C5: collect_results returns one entry for every requested id that has a
\* record, in request order, wherever a never-finishing agent stands in ids.
\* (Stated for the calls that got as far as reporting their first id.)
C5_CollectReturnsEveryId ==
    (colPc = "done" /\ colResults # <<>>) =>
        [k \in 1..Len(colResults) |-> colResults[k].id] = SelectSeq(colIds, HasRecord)

\* ---------------------------------------------------------------------
\* Claims about the MCPClient
\* ---------------------------------------------------------------------

\* The ids of the _send_request calls that have registered their queue and
\* not yet left through finally
InProgress == {t \in Threads : thr[t].pc \in {"s_write", "s_wait", "s_del"}}

\* C3: whatever message a caller takes from its queue carries the request
\* id that this caller allocated, and no two calls in progress hold the same
\* id, so a response is never handed to another caller.
C3_ResponseToAllocator ==
    /\ \A t \in Threads : HasId(thr[t].resp) => thr[t].resp.id = thr[t].rid
    /\ \A t, u \in InProgress : t # u => thr[t].rid # thr[u].rid
    /\ \A k \in DOMAIN response_queue :
           \A i \in 1..Len(response_queue[k]) : response_queue[k][i].id = k

\* A caller holds the result of the later request while the earlier request
\* of the other thread is still waiting.
C3_Witness ==
    \E t, u \in Threads :
        /\ thr[t].pc = "s_del" /\ thr[t].resp.kind = "result"
        /\ thr[u].pc = "s_wait" /\ thr[u].rid < thr[t].rid

\* C6: the pending table holds exactly the ids of the _send_request calls in
\* progress; a call that ended with TimeoutError took nothing from its queue
\* and its id is no longer in the table.
C6_PendingOnlyInProgress ==
    /\ DOMAIN response_queue = {thr[t].rid : t \in InProgress}
    /\ \A t \in Threads :
           thr[t].out = "TimeoutError"
               => thr[t].resp = TimedOut /\ thr[t].rid \notin DOMAIN response_queue
    /\ \A t \in Threads :
           (thr[t].pc = "idle" /\ thr[t].op = "call" /\ thr[t].resp = TimedOut
                /\ thr[t].out # "MCPError")
               => thr[t].out = "TimeoutError"

\* A tools/call request has timed out while the other thread's request is
\* still in the table.
C6_Witness ==
    \E t, u \in Threads :
        /\ thr[t].pc = "idle" /\ thr[t].out = "TimeoutError"
        /\ thr[u].pc = "s_wait"

\* C7: a response that arrives after its request has timed out is dropped
\* and the reader goes on: no reader thread ends because of such a message
\* (which would also mark the session as not connected).
C7_LateResponseDropped ==
    \A r \in DOMAIN readers : readers[r].pc = "ended" => readers[r].why # "KeyError"

\* A message leaves the queue of id k in this step
Taken(k) ==
    /\ k \in DOMAIN response_queue
    /\ k \in DOMAIN response_queue'
    /\ Len(response_queue'[k]) < Len(response_queue[k])

\* C20: a message leaves the queue of an id only into the one call that
\* allocated the id, which had taken nothing before and then stops waiting;
\* a call waits only on an id that was handed out to it as a fresh one; and
\* an id whose call is over never comes back into the pending table.
C20_OneResponsePerId ==
    [][/\ \A k \in 1..MaxRequests :
              Taken(k) =>
                  \E t \in Threads :
                      /\ thr[t].rid = k /\ thr[t].pc = "s_wait" /\ thr[t].resp = NoMsg
                      /\ thr'[t].pc = "s_del" /\ thr'[t].rid = k
                      /\ thr'[t].resp = Head(response_queue[k])
                      /\ \A u \in Threads \ {t} : thr'[u] = thr[u]
       /\ \A t \in Threads :
              /\ (thr'[t].pc = "s_write" /\ thr[t].pc # "s_write")
                     => thr'[t].rid = request_id + 1 /\ request_id' = request_id + 1
              /\ (thr'[t].pc = "s_wait" /\ thr[t].pc # "s_wait")
                     => thr[t].pc = "s_write" /\ thr'[t].rid = thr[t].rid
              /\ thr'[t].rid # thr[t].rid => thr'[t].rid \in {0, request_id + 1}
       /\ request_id' >= request_id
       /\ \A k \in 1..request_id :
              k \notin DOMAIN response_queue => k \notin DOMAIN response_queue'
      ]_vars

\* A caller has taken the response to its request while a second message
\* of the server with the same id is in the queue.
C20_Witness ==
    \E t \in Threads :
        /\ thr[t].pc = "s_del"
        /\ HasId(thr[t].resp)
        /\ thr[t].rid \in DOMAIN response_queue
        /\ response_queue[thr[t].rid] # <<>>

\* The record of agent a, if there still is one, says 'completed' or 'failed'
Settled(a) ==
    a \in DOMAIN agents => agents[a].status \in {"completed", "failed"}

\* C21: with fair scheduling of the spawn and worker threads, every agent
\* whose work was submitted to the pool comes to status 'completed' or
\* 'failed' and keeps it from then on.
C21_SubmittedEventuallySettled ==
    \A a \in AgentIds : (a \in futures) ~> [](Settled(a))

\* The request ids among the lines written to the stdin of process g, in
\* the order they were written (the initialized notification has no id)
RequestLines(g) == SelectSeq(stdinBuf[g], LAMBDA x : x # Initialized)

\* C24: at most one thread is between the allocation of its request id and
\* the end of its write, and the request lines reach the server's stdin in
\* increasing id order.
C24_WritesSerialized ==
    /\ Cardinality({t \in Threads : thr[t].pc = "s_write"}) <= 1
    /\ \A g \in ProcIds :
           \A i, j \in DOMAIN RequestLines(g) :
               i < j => RequestLines(g)[i] < RequestLines(g)[j]

\* The reader threads that are inside the loop of _read_responses
ActiveReaders == {r \in DOMAIN readers : readers[r].pc \in {"r_loop", "r_read", "r_put"}}

\* C25: when one thread alone calls connect() and disconnect(), the reader
\* started for an earlier connection never reads the stdout of the process
\* of a later connection: no two readers read from the same process.
C25_OneReader ==
    thr[2].op = "none" =>
        \A r1, r2 \in DOMAIN readers :
            (/\ r1 # r2
             /\ readers[r1].pc \in {"r_read", "r_put"}
             /\ readers[r2].pc \in {"r_read", "r_put"})
                => readers[r1].proc # readers[r2].proc

\* The child processes of the client that are alive
AliveProcs == {g \in ProcIds : procs[g] = "alive"}

\* C27: at most one child process of the client is alive at any moment.
C27_OneProcessAlive == Cardinality(AliveProcs) <= 1

\* C28: with one thread alone calling the client, once connect() has set
\* the connected flag, the flag is cleared only by disconnect() or when the
\* child process is gone; no step of a reader thread clears it while the
\* process is alive.
C28_ConnectedStays ==
    [][(thr[2].op = "none" /\ connectedFlag /\ ~connectedFlag')
           => ((\E t \in Threads : DiscFlags(t)) \/ ProcessGone)]_vars

\* ---------------------------------------------------------------------
\* Claims about the ToolRegistry and the MCPClientManager
\* ---------------------------------------------------------------------

\* C2: after any sequence of start-up, scans, /tools/reload, MCP reload and
\* MCP reconnect, no tool name is a key of more than one of builtin_tools,
\* plugin_tools, instruction_tools and mcp_tools.
C2_NamesUnique ==
    LET B == Range(builtin_tools)
        P == Keys(plugin_tools)
        I == Keys(instruction_tools)
        M == Keys(mcp_tools)
    IN  /\ B \cap P = {} /\ B \cap I = {} /\ B \cap M = {}
        /\ P \cap I = {} /\ P \cap M = {} /\ I \cap M = {}

\* Server s is connected and its list of tools has t
ListsTool(s, t) == s \in mgr_live /\ t \in Range(listed[s])

\* The Manager's catalog has an entry under key k whose owner is s
HasEntry(k, s) ==
    \E i \in DOMAIN mgr_tools : mgr_tools[i].name = k /\ mgr_tools[i].server = s

\* C8: when two (or more) connected servers list a tool of the same name,
\* one of them owns the short name in the Manager's catalog and every other
\* one has its tool under mcp_<server>_<tool>, each entry with its own
\* server as owner.
C8_SameNameBothRegistered ==
    \A t \in ManagerToolNames :
        LET S == {s \in AllServers : ListsTool(s, t)}
        IN  Cardinality(S) >= 2 =>
                \E first \in S :
                    /\ HasEntry(t, first)
                    /\ \A s \in S \ {first} : HasEntry(Qualified(s, t), s)

\* C9: after scan_mcp_servers(), a tool of a connected server whose short
\* name is a key of builtin_tools, plugin_tools or instruction_tools is in
\* mcp_tools under mcp_<server>_<tool>, with that server as owner.
C9_TakenNameQualified ==
    lastOp \in {"startup", "mcp_reload"} =>
        \A s \in mgr_live : \A t \in Range(listed[s]) :
            t \in Range(builtin_tools) \cup Keys(plugin_tools) \cup Keys(instruction_tools)
                => \E i \in DOMAIN mcp_tools :
                       mcp_tools[i].name = Qualified(s, t) /\ mcp_tools[i].server = s

\* C10: a plugin reload over the disk as the previous scan saw it leaves
\* plugin_tools, instruction_tools and list_all() as that scan left them:
\* reloading twice gives what reloading once gives.
C10_ReloadIdempotent ==
    [][handle_tools_reload =>
          /\ plugin_tools' = plugin_tools
          /\ instruction_tools' = instruction_tools
          /\ list_all' = list_all]_vars

\* Two reloads in a row have run over a disk with a registered plugin and a
\* skill directory that was skipped, with MCP tools in the catalog.
C10_Witness ==
    /\ lastOp = "reload_again"
    /\ plugin_tools # <<>>
    /\ mcp_tools # <<>>
    /\ Len(fs) > Len(plugin_tools) + Len(instruction_tools)


\* C11: once the builtins are registered, no scan, reload or reconnect
\* changes builtin_tools, and no name of builtin_tools is ever a key of
\* plugin_tools, instruction_tools or mcp_tools.
C11_BuiltinsPermanent ==
    /\ [](Range(builtin_tools) \cap
             (Keys(plugin_tools) \cup Keys(instruction_tools) \cup Keys(mcp_tools)) = {})
    /\ [][started => builtin_tools' = builtin_tools]_vars

\* After a reconnect, the disk holds a manifest tool and a SKILL.md tool
\* named like a builtin and a connected server lists that name too.
C11_Witness ==
    /\ lastOp = "reconnect"
    /\ builtin_tools = builtin_names
    /\ \E i, j \in DOMAIN fs :
           /\ fs[i].kind = "manifest" /\ fs[i].exe /\ fs[i].name \in Range(builtin_tools)
           /\ fs[j].kind = "skill" /\ fs[j].name \in Range(builtin_tools)
    /\ \E s \in mgr_live : Range(listed[s]) \cap Range(builtin_tools) # {}


\* C12: for every key of the Manager's catalog, call_tool hands the owning
\* server's client exactly the tool name that this server listed for the
\* entry (a short-name entry unchanged, a qualified entry without its
\* mcp_<server>_ prefix).
C12_ForwardsListedName ==
    \A i \in DOMAIN mgr_tools :
        LET call == call_tool(Manager, mgr_tools[i].name)
        IN  /\ call.raised = ""
            /\ call.server = mgr_tools[i].server
            /\ call.tool = mgr_tools[i].tool


\* The catalog holds the tool t that server s listed, under its short or
\* its qualified name, with s as owner
RegisteredIn(tools, s, t) ==
    \E i \in DOMAIN tools :
        /\ tools[i].server = s
        /\ tools[i].tool = t
        /\ tools[i].name \in {t, Qualified(s, t)}

\* The outcomes of the connect attempts of one initialize_all()
ManagerResults == [AllServers -> ConnectResults(Lists(ManagerToolNames, MaxListed))]

\* C13: whatever subset of the configured servers fails to connect, after
\* initialize_all() every tool listed by a server that did connect is in
\* the catalog, and the return value is the number of connected servers.
C13_InitializeBestEffort ==
    [][\A res \in ManagerResults :
          InitializeAll(res) =>
              /\ \A s \in AllServers : \A t \in Range(res[s].list) :
                     res[s].ok => RegisteredIn(mgr_tools', s, t)
              /\ success_count(ManagerConfig, res) = Cardinality(mgr_clients')
              /\ mgr_clients' = {s \in AllServers : res[s].ok}]_vars


\* The entries of dict d that do not belong to server s
OthersOf(d, s) == SelectSeq(d, LAMBDA e : e.server # s)

\* C14: reconnect_server(s), successful or not, leaves every catalog entry
\* and every _tool_to_server record of the other servers, and every other
\* client, as they were.
C14_ReconnectTouchesOnlyItsServer ==
    [][\A s \in AllServers :
          \A r \in ConnectResults(Lists(ManagerToolNames, MaxListed)) :
              ReconnectServer(s, r) =>
                  /\ OthersOf(mgr_tools', s) = OthersOf(mgr_tools, s)
                  /\ OthersOf(tool_to_server', s) = OthersOf(tool_to_server, s)
                  /\ mgr_clients' = mgr_clients
                  /\ mgr_live' \ {s} = mgr_live \ {s}]_vars


\* C15: every dispatch of a tool call, through handle_tool_execution or
\* SubagentManager._execute_tool, ends with a result whose status is
\* 'success' or 'error'; no exception leaves the dispatch, and a failure of
\* the skill executor, a plugin, the Manager or an MCP call gives 'error'.
C15_DispatchStructured ==
    response # NoResponse =>
        /\ response.escaped = ""
        /\ response.status \in {"success", "error"}
        /\ response.failed => response.status = "error"

\* A call of an MCP tool that the registry still lists but the Manager no
\* longer holds has ended with status 'error'.
C15_Witness ==
    /\ response.route = "mcp"
    /\ response.status = "error"
    /\ \E i \in DOMAIN mcp_tools : call_tool(Manager, mcp_tools[i].name).raised # ""


\* C16: a spawn() that found MAX_CONCURRENT records running has returned its
\* id without submitting work: from then on the record is there with status
\* 'queued' and the explanatory error, it has no future, and no worker ever
\* takes it.
C16_QueuedNeverRuns ==
    \A a \in AgentIds :
        spawnPc[a] = "returned_queued" =>
            /\ a \in DOMAIN agents
            /\ agents[a].status = "queued"
            /\ agents[a].error = "Queue full"
            /\ ~agents[a].result
            /\ ~agents[a].completed_at
            /\ a \notin futures
            /\ work[a] = "none"
            /\ a \notin Range(poolQueue)

\* A task was refused at capacity, a worker has finished since and the
\* running count is below the maximum again; the record is still 'queued'.
C16_Witness ==
    \E a \in AgentIds :
        /\ spawnPc[a] = "returned_queued"
        /\ agents[a].status = "queued"
        /\ running_count < MAX_CONCURRENT
        /\ \E b \in DOMAIN agents : agents[b].status \in {"completed", "failed"}


\* The name of manifest tool j can be registered: it has a toolName that is
\* no builtin and that no earlier directory claimed.
NameFree(j) ==
    /\ manifest_tools[j].name # ""
    /\ manifest_tools[j].name \notin Range(builtin_names)
    /\ manifest_tools[j].name \notin seen_before

\* C17: after scan_plugins went through a manifest, a tool whose executable
\* does not exist is not registered for it, and every tool of the manifest
\* whose executable exists and whose name is free is registered.
C17_MissingExecutableSkipsOnlyThatTool ==
    scanned.done =>
        /\ \A j \in DOMAIN manifest_tools :
               manifest_tools[j].exe /\ NameFree(j) =>
                   manifest_tools[j].name \in Keys(scanned.plugin)
        /\ \A i \in DOMAIN manifest_tools :
               (\A j \in DOMAIN manifest_tools :
                    manifest_tools[j].name = manifest_tools[i].name => ~manifest_tools[j].exe)
                   => manifest_tools[i].name \notin Keys(scanned.plugin)

\* A manifest whose first tool has no executable and whose later tool, of
\* another name, has one, has been scanned; the later tool is registered.
C17_Witness ==
    /\ scanned.done
    /\ Len(manifest_tools) >= 2
    /\ ~manifest_tools[1].exe
    /\ manifest_tools[1].name = "search"
    /\ \E j \in 2..Len(manifest_tools) :
           /\ manifest_tools[j].exe
           /\ manifest_tools[j].name = "fetch"
           /\ NameFree(j)
    /\ Keys(scanned.plugin) = {"fetch"}


\* The positions of the records of the list L that carry the name n
RecordsNamed(L, n) == {i \in DOMAIN L : L[i].name = n}

\* C18: once a builtin is registered, whatever scans and reloads follow,
\* list_all() has exactly one record with its name, and that record has type
\* 'builtin'.
C18_BuiltinListedOnce ==
    LET L == list_all
    IN  \A n \in Range(builtin_tools) :
            /\ Cardinality(RecordsNamed(L, n)) = 1
            /\ \A i \in RecordsNamed(L, n) : L[i].type = "builtin"

\* After a reload, with a plugin directory and a connected MCP server that
\* both offer a tool named like the builtin readFile, list_all() has one
\* record named readFile.
C18_Witness ==
    /\ lastOp \in {"reload", "mcp_reload"}
    /\ "readFile" \in Range(builtin_tools)
    /\ \E i \in DOMAIN fs : fs[i].kind = "manifest" /\ fs[i].exe /\ fs[i].name = "readFile"
    /\ \E s \in mgr_live : "readFile" \in Range(listed[s])
    /\ Cardinality(RecordsNamed(list_all, "readFile")) = 1


\* The fields of the uniform summary record
SummaryFields == {"name", "type", "description", "inputs", "dangerLevel", "version"}

\* C19: every record of list_all() carries name, type, description, inputs,
\* dangerLevel and version, and a record of an MCP tool carries server too.
C19_UniformRecords ==
    \A i \in DOMAIN list_all :
        /\ SummaryFields \subseteq RecordFields(list_all[i])
        /\ list_all[i].type = "mcp" => "server" \in RecordFields(list_all[i])


\* C22: shutdown_all() leaves the Manager without clients, with an empty
\* catalog and an empty ownership table, and has called disconnect() on
\* every client it held, whichever of these calls raised.
C22_ShutdownClearsEverything ==
    [][\A raising \in SUBSET AllServers :
           ShutdownAll(raising) =>
               /\ mgr_clients' = {}
               /\ mgr_tools' = <<>>
               /\ tool_to_server' = <<>>
               /\ ~mgr_initialized'
               /\ shut_down'.invoked = mgr_clients
               /\ shut_down'.raised = raising]_vars

\* A shutdown_all() of a Manager with three clients during which the
\* disconnect() of the first one raised has come to its end.
C22_Witness ==
    /\ shut_down.invoked = AllServers
    /\ "a" \in shut_down.raised
    /\ mgr_clients = {}
    /\ mgr_tools = <<>>


CompleteScan == scan_plugins(Range(builtin_tools), <<>>, <<>>, fs)

\* C26: with the disk unchanged, a reload that runs next to other requests
\* never makes is_registered() report a tool that the scan registers before
\* and after the reload as not registered.
C26_ReloadNeverHidesTool ==
    (looked # NoLookup /\ looked.name \in Keys(CompleteScan.plugin) \cup Keys(CompleteScan.instr))
        => looked.found

\* C29: after a call of scan_plugins() the plugin and instruction maps hold
\* only tools that the skill directories now on disk declare.
C29_ScanKeepsOnlyCurrentTools ==
    lastOp = "scan" =>
        /\ Keys(plugin_tools) \subseteq Keys(CompleteScan.plugin)
        /\ Keys(instruction_tools) \subseteq Keys(CompleteScan.instr)

\* C30: no thread waits for a child process to exit while it holds the
\* lock of the MCPClientManager.
C30_NoWaitUnderLock ==
    \A t \in MThreads : mthr[t].pc \in WaitsForExit => mgr_lock # t

\* C31: a request of the server (a message with a method and an id) is never
\* what a call took from its queue as the response to its own request.
C31_ServerRequestNotAResponse ==
    \A t \in Threads : thr[t].resp.kind # "request"

\* C32: every name in the registry's MCP map is a key of the Manager's
\* catalog, and the entry there belongs to a client the Manager holds.
C32_McpMapWithinCatalog ==
    \A n \in Keys(mcp_tools) :
        /\ n \in Keys(mgr_tools)
        /\ mgr_tools[IndexOf(mgr_tools, n)].server \in mgr_clients

\* C33: after initialize_all() every tool that a connected server listed is
\* in the catalog under its short or its qualified name with that server as
\* owner: no entry of one server was replaced by the registration of
\* another.
C33_EveryListedToolOwned ==
    [][(\E res \in ManagerResults : InitializeAll(res))
           => \A s \in mgr_live' : \A t \in Range(listed'[s]) :
                  \E e \in Range(mgr_tools') :
                      e.server = s /\ e.tool = t /\ e.name \in {t, Qualified(s, t)}]_vars

\* C35: a dispatch through handle_tool_execution of a name that is in none
\* of the four maps is rejected with status 'error' and runs nothing; for a
\* registered name it runs the one executor that the precedence instruction
\* tool, plugin tool, MCP tool, builtin handler selects, and a name that
\* reaches the builtin branch has a handler.
C35_DispatchPrecedence ==
    [][\A n \in DispatchNames :
          (\E oc \in PrecedenceOutcomes : handle_tool_execution(n, oc)) =>
              LET I == n \in Keys(instruction_tools)
                  P == n \in Keys(plugin_tools)
                  M == n \in Keys(mcp_tools)
                  B == n \in Range(builtin_tools)
              IN  /\ response'.route = "unregistered" <=> ~(I \/ P \/ M \/ B)
                  /\ response'.route = "unregistered" => response'.status = "error"
                  /\ response'.route = "instruction" <=> I
                  /\ response'.route = "plugin" <=> (~I /\ P)
                  /\ response'.route = "mcp" <=> (~I /\ ~P /\ M)
                  /\ response'.route = "builtin" <=> (~I /\ ~P /\ ~M /\ B)
                  /\ response'.route = "builtin" => n \in builtin_handlers]_vars

\* The last dispatch went to the skill executor while the one instruction
\* tool there is, 'search', is an MCP tool as well.
C35_Witness ==
    /\ response.route = "instruction"
    /\ Keys(instruction_tools) = {"search"}
    /\ "search" \in Keys(mcp_tools)

\* C34: the request counter of a client never goes down, also not in
\* disconnect() or connect(); an id is handed out only by raising the
\* counter by one and taking the new value, so every id is larger than all
\* ids handed out before it; and no two calls in progress hold the same id.
C34_IdsIncreaseNeverReused ==
    /\ [](\A t, u \in Threads :
              (t # u /\ thr[t].pc \in {"s_write", "s_wait", "s_del"}
                     /\ thr[u].pc \in {"s_write", "s_wait", "s_del"})
                  => thr[t].rid # thr[u].rid)
    /\ [][/\ request_id' >= request_id
          /\ \A t \in Threads :
                 (thr'[t].pc = "s_write" /\ thr[t].pc # "s_write")
                     => /\ thr'[t].rid = request_id'
                        /\ request_id' = request_id + 1
                        /\ \A g \in ProcIds : \A i \in DOMAIN stdinBuf[g] :
                               stdinBuf[g][i] < thr'[t].rid]_vars

\* A disconnect() has terminated the first process, and both threads hold
\* an id for a request to the second.
C34_Witness ==
    /\ process = 2
    /\ procs[1] = "dead"
    /\ request_id = 2
    /\ \A t \in Threads : thr[t].pc \in {"s_write", "s_wait"} /\ thr[t].rid >= 1

\* C36: a line of the server that is not valid JSON never ends the reader
\* loop: the reader skips it and goes on reading.
C36_BadLineSkipped ==
    \A r \in DOMAIN readers : readers[r].why # "UnicodeDecodeError"

\* C37: with one thread calling the client, a connect() that returns False
\* leaves the client without a process, not connected and with the reader
\* told to stop; a connect() that went through the handshake returns True
\* only after it took a result for its initialize request and with the
\* initialized notification written to the process.
C37_ConnectOutcome ==
    [][\A t \in Threads :
          (thr[2].op = "none" /\ thr[t].op = "connect"
               /\ thr[t].pc # "idle" /\ thr'[t].pc = "idle")
              => /\ thr'[t].out = "False"
                     => process' = 0 /\ ~connectedFlag' /\ ~running'
                 /\ thr'[t].out = "True"
                     => /\ thr[t].resp.kind = "result"
                        /\ process' # 0
                        /\ \E i \in DOMAIN stdinBuf'[process'] :
                               stdinBuf'[process'][i] = Initialized]_vars

\* C38: under fair scheduling, when the child process of a connected
\* session has exited, the reader thread started for that process comes to
\* its end, and from the exit on the client does not report connected
\* through that process.
C38_ExitEndsReader ==
    /\ \A g \in RetryProcs :
           (/\ g \in DOMAIN procs /\ g \in DOMAIN readers
            /\ connectedFlag /\ process = g /\ procs[g] = "dead")
               ~> (g \in DOMAIN readers /\ readers[g].pc = "ended")
    /\ [](process # 0 /\ procs[process] = "dead" => ~Connected)

\* C39: in every state, a call of cleanup_old_agents, whatever the set of
\* records completed before the cutoff, leaves the table with exactly the
\* completed or failed records older than the cutoff removed and every
\* other record (pending, running, queued, or completed/failed after the
\* cutoff) as it was.
C39_CleanupRemovesExactlyOld ==
    \A old \in SUBSET {a \in DOMAIN agents : agents[a].completed_at} :
        DOMAIN agents # {} =>
            ENABLED (/\ Cleanup(old)
                     /\ agents' = Restrict(agents, DOMAIN agents \ to_remove(old)))

=============================================================================
